---- MODULE Spec2Model ----
(***************************************************************************)
(* A model of the MemeMeow preferences store                               *)
(* (src-tauri/src/config_manager.rs): the UserPreferences value guarded by *)
(* a std::sync::Mutex, the preferences.json file it is persisted to, and   *)
(* the threads (UI command handlers, the global-hotkey callback) that call *)
(* into the one process-wide ConfigManager.                                *)
(*                                                                         *)
(* A call that takes the lock and writes the file is several steps: the    *)
(* lock acquisition with the in-memory mutation, File::create, one step    *)
(* per write() of write_all, and the return, which drops the guard.  A     *)
(* call that returns without touching the file is one step.                *)
(*                                                                         *)
(* Spec is the store.  FetchSpec is download_with_fallback_urls            *)
(* (src-tauri/src/utils/network.rs), one call against a network that       *)
(* answers each request as it likes.  ConvSpec is                          *)
(* ShortcutConfig::to_tauri_shortcut applied to pairs of bindings.         *)
(***************************************************************************)
EXTENDS Integers, Sequences, FiniteSets, TLC

\* ---------------------------------------------------------------- bounds
\* The longest endpoint list add_api_url may build.
MaxUrls == 3
\* The number of calls into the store in one behaviour.
MaxCalls == 2
\* The number of write() calls write_all needs for one document.
NChunks == 2

\* The threads that call into the store: a UI command and the hotkey callback.
Threads == {"ui", "hotkey"}
NoThread == "none"

\* ---------------------------------------------------------------- strings
\* A String the program takes apart (a key name, a modifier token) is the
\* sequence of its characters.
Lowercase == <<"a", "b", "c", "d", "e", "f", "g", "h", "i", "j", "k", "l", "m", "n", "o", "p", "q", "r", "s", "t", "u", "v", "w", "x", "y", "z">>
Uppercase == <<"A", "B", "C", "D", "E", "F", "G", "H", "I", "J", "K", "L", "M", "N", "O", "P", "Q", "R", "S", "T", "U", "V", "W", "X", "Y", "Z">>

\* char::to_lowercase on the characters used here (ASCII).
LowerChar(c) ==
    IF \E j \in 1..Len(Uppercase) : Uppercase[j] = c
    THEN Lowercase[CHOOSE j \in 1..Len(Uppercase) : Uppercase[j] = c]
    ELSE c

\* str::to_lowercase
to_lowercase(str) == [i \in 1..Len(str) |-> LowerChar(str[i])]

\* The modifier tokens of the match in to_tauri_shortcut.
ctrl == <<"c", "t", "r", "l">>
alt == <<"a", "l", "t">>
shift == <<"s", "h", "i", "f", "t">>
meta == <<"m", "e", "t", "a">>
super == <<"s", "u", "p", "e", "r">>
command == <<"c", "o", "m", "m", "a", "n", "d">>

\* ---------------------------------------------------- to_tauri_shortcut
\* The arms of `match self.key.to_lowercase().as_str()`, in their order: the
\* key name and the Code.
KeyTable ==
    <<<<<<"a">>, "KeyA">>, <<<<"b">>, "KeyB">>, <<<<"c">>, "KeyC">>,
       <<<<"d">>, "KeyD">>, <<<<"e">>, "KeyE">>, <<<<"f">>, "KeyF">>,
       <<<<"g">>, "KeyG">>, <<<<"h">>, "KeyH">>, <<<<"i">>, "KeyI">>,
       <<<<"j">>, "KeyJ">>, <<<<"k">>, "KeyK">>, <<<<"l">>, "KeyL">>,
       <<<<"m">>, "KeyM">>, <<<<"n">>, "KeyN">>, <<<<"o">>, "KeyO">>,
       <<<<"p">>, "KeyP">>, <<<<"q">>, "KeyQ">>, <<<<"r">>, "KeyR">>,
       <<<<"s">>, "KeyS">>, <<<<"t">>, "KeyT">>, <<<<"u">>, "KeyU">>,
       <<<<"v">>, "KeyV">>, <<<<"w">>, "KeyW">>, <<<<"x">>, "KeyX">>,
       <<<<"y">>, "KeyY">>, <<<<"z">>, "KeyZ">>, <<<<"0">>, "Digit0">>,
       <<<<"1">>, "Digit1">>, <<<<"2">>, "Digit2">>, <<<<"3">>, "Digit3">>,
       <<<<"4">>, "Digit4">>, <<<<"5">>, "Digit5">>, <<<<"6">>, "Digit6">>,
       <<<<"7">>, "Digit7">>, <<<<"8">>, "Digit8">>, <<<<"9">>, "Digit9">>,
       <<<<"f", "1">>, "F1">>, <<<<"f", "2">>, "F2">>, <<<<"f", "3">>, "F3">>,
       <<<<"f", "4">>, "F4">>, <<<<"f", "5">>, "F5">>, <<<<"f", "6">>, "F6">>,
       <<<<"f", "7">>, "F7">>, <<<<"f", "8">>, "F8">>, <<<<"f", "9">>, "F9">>,
       <<<<"f", "1", "0">>, "F10">>, <<<<"f", "1", "1">>, "F11">>, <<<<"f", "1", "2">>, "F12">>>>

\* A match on self.key as it is, without to_lowercase.
KeyCodeCaseSensitive(key) ==
    LET hits == {e \in 1..Len(KeyTable) : KeyTable[e][1] = key}
    IN  IF hits = {} THEN "KeyV"
        ELSE KeyTable[CHOOSE e \in hits : \A h \in hits : e <= h][2]

\* The Code of a key string: the first arm that matches its lower-cased form,
\* and the `_` arm, Code::KeyV, when none does.
KeyCode(key) ==
    LET k == to_lowercase(key)
        hits == {e \in 1..Len(KeyTable) : KeyTable[e][1] = k}
    IN  IF hits = {} THEN "KeyV"
        ELSE KeyTable[CHOOSE e \in hits : \A h \in hits : e <= h][2]

\* A match on the token as it is, without to_lowercase.
ModifierFlagCaseSensitive(modifier) ==
    IF modifier = ctrl THEN {"CONTROL"}
    ELSE IF modifier = alt THEN {"ALT"}
    ELSE IF modifier = shift THEN {"SHIFT"}
    ELSE IF modifier = meta \/ modifier = super \/ modifier = command THEN {"META"}
    ELSE {}

\* The arm of `match modifier.to_lowercase().as_str()` a token takes: the
\* flag it inserts, none for the `_ => continue` arm.
ModifierFlag(modifier) ==
    LET m == to_lowercase(modifier) IN
    IF m = ctrl THEN {"CONTROL"}
    ELSE IF m = alt THEN {"ALT"}
    ELSE IF m = shift THEN {"SHIFT"}
    ELSE IF m = meta \/ m = super \/ m = command THEN {"META"}
    ELSE {}

\* The for loop over self.modifiers from position i on, flags being the
\* Modifiers built so far.
RECURSIVE InsertModifiers(_, _, _)
InsertModifiers(modifiers, i, flags) ==
    IF i > Len(modifiers) THEN flags
    ELSE InsertModifiers(modifiers, i + 1, flags \cup ModifierFlag(modifiers[i]))

\* ShortcutConfig::to_tauri_shortcut: (Modifiers, Code)
to_tauri_shortcut(config) ==
    <<InsertModifiers(config.modifiers, 1, {}), KeyCode(config.key)>>

\* ------------------------------------------------------------ data model
DefaultUrl == "https://mememeow.morami.icu"

\* impl Default for ShortcutConfig
ShortcutConfigDefault ==
    [modifiers |-> <<ctrl, alt>>, key |-> <<"v">>, action |-> "toggle_window"]

\* fn default_toggle_app_shortcut
default_toggle_app_shortcut ==
    [modifiers |-> <<ctrl, alt>>, key |-> <<"n">>, action |-> "toggle_window"]

\* #[derive(Default)] on ShortcutConfigs: every field's Default::default()
ShortcutConfigsDefault == [toggle_app |-> ShortcutConfigDefault]

default_true == TRUE

default_api_urls == << [name |-> "DefaultAPI", url |-> DefaultUrl] >>

default_active_api_index == 0

\* impl Default for ApiUrlConfig
ApiUrlConfigDefault == [urls |-> default_api_urls, active_index |-> 0]

\* impl Default for UserPreferences
UserPreferencesDefault ==
    [copy_to_clipboard |-> TRUE,
     shortcuts |-> ShortcutConfigsDefault,
     api_urls |-> ApiUrlConfigDefault]

\* ---------------------------------------------------------- JSON documents
\* A JSON object is a record whose fields are optional: <<>> when the key is
\* missing from the document, <<v>> when it is present with value v.
Some(v) == <<v>>
None == <<>>
OrElse(opt, d) == IF opt = <<>> THEN d ELSE opt[1]

\* A serialization that leaves out an empty endpoint list, as
\* #[serde(skip_serializing_if = "Vec::is_empty")] on urls would.
SerializeSkipEmptyUrls(p) ==
    [copy_to_clipboard |-> Some(p.copy_to_clipboard),
     shortcuts |-> Some([toggle_app |-> Some(p.shortcuts.toggle_app)]),
     api_urls |-> Some([urls |-> IF p.api_urls.urls = <<>> THEN None
                                 ELSE Some(p.api_urls.urls),
                        active_index |-> Some(p.api_urls.active_index)])]

\* serde_json::to_string_pretty(&UserPreferences): every field is written.
Serialize(p) ==
    [copy_to_clipboard |-> Some(p.copy_to_clipboard),
     shortcuts |-> Some([toggle_app |-> Some(p.shortcuts.toggle_app)]),
     api_urls |-> Some([urls |-> Some(p.api_urls.urls),
                        active_index |-> Some(p.api_urls.active_index)])]

\* serde_json::from_str::<UserPreferences>: a missing key takes the value its
\* #[serde(default ...)] attribute names.
DeserializeShortcuts(opt) ==
    IF opt = <<>> THEN ShortcutConfigsDefault
    ELSE [toggle_app |-> OrElse(opt[1].toggle_app, default_toggle_app_shortcut)]

DeserializeApiUrls(opt) ==
    IF opt = <<>> THEN ApiUrlConfigDefault
    ELSE [urls |-> OrElse(opt[1].urls, default_api_urls),
          active_index |-> OrElse(opt[1].active_index, default_active_api_index)]

Deserialize(doc) ==
    [copy_to_clipboard |-> OrElse(doc.copy_to_clipboard, default_true),
     shortcuts |-> DeserializeShortcuts(doc.shortcuts),
     api_urls |-> DeserializeApiUrls(doc.api_urls)]

\* ------------------------------------------------------------------ files
\* The bytes of a document as write_all hands them to the file: NChunks
\* pieces, piece i of document doc.
Bytes(doc) == [i \in 1..NChunks |-> [doc |-> doc, part |-> i]]

\* The file's contents parse iff they are all the pieces of one document, in
\* order.  An empty or cut-off file and a mixture of two documents do not.
Parses(data) ==
    /\ Len(data) = NChunks
    /\ \A i \in 1..NChunks : data[i].part = i /\ data[i].doc = data[1].doc

AbsentFile == [exists |-> FALSE, data |-> <<>>]
FileOf(doc) == [exists |-> TRUE, data |-> Bytes(doc)]
\* What the first k write() calls of write_all leave in a file just created.
Written(buf, k) == [exists |-> TRUE, data |-> SubSeq(buf, 1, k)]

\* ----------------------------------------------------------------- inputs
\* The endpoints callers add besides the built-in one.
Mirror1 == [name |-> "mirror1", url |-> "https://m1.example"]
Mirror2 == [name |-> "mirror2", url |-> "https://m2.example"]
ApiUrlInputs == {Mirror2}

\* A binding a user sets in the settings page.
UserShortcut ==
    [modifiers |-> <<ctrl, shift>>, key |-> <<"k">>, action |-> "toggle_window"]
ShortcutInputs == {[toggle_app |-> UserShortcut]}

\* The records callers hand to update_api_url_config: the type is
\* ApiUrlConfig, any list with any usize.
ConfigInputs ==
    {[urls |-> <<>>, active_index |-> 0],
     [urls |-> <<Mirror1>>, active_index |-> 1],
     [urls |-> default_api_urls \o <<Mirror1, Mirror2>>, active_index |-> 1]}

\* The records callers hand to update_preferences: the type is
\* UserPreferences, which does not tie active_index to the list.
PrefsInputs ==
    {[copy_to_clipboard |-> FALSE,
      shortcuts |-> [toggle_app |-> UserShortcut],
      api_urls |-> [urls |-> default_api_urls \o <<Mirror1>>, active_index |-> 2]]}

\* The usize indices callers pass: the first two and one past the longest list.
IndexInputs == {0, 1, MaxUrls}

\* What preferences.json may hold when the process starts: no file, an empty
\* (unparseable) file, a document an earlier run of the program wrote, and
\* one a user's editor left: its shortcuts object is empty and its api_urls
\* object has an active_index and no urls.
EmptyDoc == [copy_to_clipboard |-> None, shortcuts |-> None, api_urls |-> None]
InitialFiles ==
    {AbsentFile,
     [exists |-> TRUE, data |-> <<>>],
     FileOf(Serialize([UserPreferencesDefault EXCEPT
         !.api_urls = [urls |-> default_api_urls \o <<Mirror1, Mirror2>>,
                       active_index |-> 1]])),
     FileOf([EmptyDoc EXCEPT
         !.shortcuts = Some([toggle_app |-> None]),
         !.api_urls = Some([urls |-> None, active_index |-> Some(2)])])}

\* ------------------------------------------------------------------ state
VARIABLES
    manager,      \* CONFIG_MANAGER: "uninit", "running" while a thread is in
                  \* the get_or_init closure, "ready" once the value is set
    news,         \* how many ConfigManager values ConfigManager::new has returned
    preferences,  \* the UserPreferences inside ConfigManager.preferences
    lock,         \* the thread holding the Mutex, NoThread when it is free
    file,         \* preferences.json
    th,           \* per thread: the call it is in, or the last one it returned from
    ioFailed,     \* a File::create or write of the store has failed
    net,          \* the one download_with_fallback_urls call: see NetIdle
    conv,         \* two bindings and what to_tauri_shortcut made of them
    community,    \* the manifest cache and the fetch_community_manifest calls
    hotkeys,      \* the OS's registered global shortcuts and refresh_shortcuts
    search        \* the one MemeServerClient::search_memes call

vars == <<manager, news, preferences, lock, file, th, ioFailed, net, conv, community, hotkeys, search>>

\* io::Result values the store returns.
NoResult == [kind |-> "none", msg |-> "", val |-> <<>>]
Ok(v) == [kind |-> "Ok", msg |-> "", val |-> <<v>>]
OkUnit == [kind |-> "Ok", msg |-> "", val |-> <<>>]
\* io::Error::new(io::ErrorKind::Other, "获取偏好锁失败")
ErrLock == [kind |-> "Other", msg |-> "lock", val |-> <<>>]
\* io::Error::new(io::ErrorKind::InvalidInput, "API URL索引超出范围")
ErrIndex == [kind |-> "InvalidInput", msg |-> "index out of range", val |-> <<>>]
\* the io::Error of a failed File::create or write, passed on by `?`
ErrIo == [kind |-> "Os", msg |-> "file", val |-> <<>>]

\* A thread's record: pc, where it is in its call; op and arg, the call; n, how
\* many calls it has made; pre, the preferences it found when it took the guard;
\* buf, the bytes it writes (json.as_bytes()); pos, how many write() calls of
\* its write_all are done; res, what the call returned.
Idle == [pc |-> "idle", op |-> "none", arg |-> <<>>, n |-> 0, pre |-> <<>>,
         buf |-> <<>>, pos |-> 0, res |-> NoResult]
\* Thread record r once its call op(arg) has returned res.
Returned(r, op, arg, res) ==
    [pc |-> "idle", op |-> op, arg |-> <<arg>>, n |-> r.n, pre |-> <<>>,
     buf |-> <<>>, pos |-> 0, res |-> res]
\* ... which took the guard, stored p over the value pre and is at
\* save_preferences_locked(&guard.clone()).
Saving(r, op, arg, pre, p) ==
    [pc |-> "create", op |-> op, arg |-> <<arg>>, n |-> r.n, pre |-> <<pre>>,
     buf |-> Bytes(Serialize(p)), pos |-> 0, res |-> NoResult]
\* ... which waits in Mutex::lock().
Blocked(r, op, arg) ==
    [pc |-> "blocked", op |-> op, arg |-> <<arg>>, n |-> r.n, pre |-> <<>>,
     buf |-> <<>>, pos |-> 0, res |-> NoResult]

\* Result<String, String>::Err(msg)
Err(msg) == [kind |-> "Err", msg |-> msg, val |-> <<>>]

\* The state of a download_with_fallback_urls call: pc, where it is; urls, the
\* candidates; timeout, the seconds of the current client; i, the index of the
\* for loop; inflight, the indices of the requests sent and not yet answered;
\* log, the attempts made, each with its url, index, timeout and result; res,
\* what the call returned.
NetIdle == [pc |-> "idle", urls |-> <<>>, timeout |-> 0, i |-> 0,
            inflight |-> {}, log |-> <<>>, res |-> NoResult]

\* The bindings a and b handed to to_tauri_shortcut, the number of edits that
\* made b's modifier list out of a's, and the (Modifiers, Code) pairs
\* to_tauri_shortcut returned for them, <<>> before it ran.
ConvIdle == [a |-> ShortcutConfigDefault, b |-> ShortcutConfigDefault,
             edits |-> 0, out |-> <<>>]

\* The manifest cache: cache, community_manifest.json; dir, whether
\* dirs::cache_dir() is Some; pc, where the one fetch_community_manifest or
\* refresh_community_manifest call is; n, the calls made; requests, the GETs
\* of MANIFEST_URL sent; op and res, the last call and what it returned;
\* libs, enabled_meme_libs.json.
CommunityIdle == [cache |-> [exists |-> FALSE, data |-> <<>>], dir |-> TRUE,
                  pc |-> "idle", n |-> 0, requests |-> 0, op |-> "none",
                  res |-> NoResult,
                  libs |-> [exists |-> FALSE, data |-> <<>>]]

\* The shortcuts registered with the OS, the refresh_shortcuts calls made and
\* what the last one returned; visible, whether the main window is shown;
\* event, the last event the shortcut handler ran for: its shortcut and
\* state, whether the window calls succeeded, whether the window was toggled.
HotkeysIdle == [registered |-> {}, pc |-> "idle", n |-> 0, res |-> NoResult,
                visible |-> TRUE,
                event |-> [shortcut |-> <<>>, state |-> "none", ok |-> FALSE,
                           toggled |-> FALSE]]

\* The search_memes call: pc, where it is; url, the api_url it uses; cause,
\* what made it panic; res, what it returned.
SearchIdle == [pc |-> "idle", url |-> "", cause |-> "", res |-> NoResult]

RECURSIVE Sum(_, _)
Sum(f, S) == IF S = {} THEN 0 ELSE LET x == CHOOSE y \in S : TRUE
                                   IN f[x].n + Sum(f, S \ {x})
\* The calls made so far.
calls == Sum(th, Threads)
\* Thread record r as its thread makes one more call.
Invoke(r) == [r EXCEPT !.n = @ + 1]

\* A try_lock that succeeds whoever holds the mutex: no mutual exclusion.
TryLockOkUnguarded == TRUE

\* Mutex::try_lock succeeds iff nobody holds the mutex (std's Mutex is not
\* reentrant: it fails for the holder too).
TryLockOk == lock = NoThread

Init ==
    /\ manager = "uninit"
    /\ news = 0
    /\ preferences = UserPreferencesDefault
    /\ lock = NoThread
    /\ file \in InitialFiles
    /\ th = [t \in Threads |-> Idle]
    /\ ioFailed = FALSE
    /\ net = NetIdle
    /\ community = CommunityIdle
    /\ hotkeys = HotkeysIdle
    /\ search = SearchIdle
    /\ conv = ConvIdle

\* ----------------------------------------------------------- construction
\* load_preferences(path).  createOk, readOk: whether File::create and
\* File::open/read_to_string succeed; k: how many write() calls succeed.
\* The result: ok (Ok or Err), the preferences of Ok, the file afterwards.
load_preferences(f, createOk, readOk, k) ==
    IF ~f.exists THEN
        IF ~createOk THEN [ok |-> FALSE, prefs |-> UserPreferencesDefault, file |-> f]
        ELSE [ok |-> k = NChunks,
              prefs |-> UserPreferencesDefault,
              file |-> Written(Bytes(Serialize(UserPreferencesDefault)), k)]
    ELSE IF ~readOk THEN [ok |-> FALSE, prefs |-> UserPreferencesDefault, file |-> f]
    ELSE IF Parses(f.data)
         THEN [ok |-> TRUE, prefs |-> Deserialize(f.data[1].doc), file |-> f]
         ELSE [ok |-> FALSE, prefs |-> UserPreferencesDefault, file |-> f]

\* A cell whose callers run the closure whenever the value is not set yet,
\* also while another thread is running it.
OnceIncompleteUnsynchronised == manager # "ready"

\* OnceLock::get_or_init lets a caller run the closure iff the cell is
\* still uninitialised and no other thread is running the closure.
OnceIncomplete == manager = "uninit"

\* get_config_manager() on a CONFIG_MANAGER that is not yet set: the caller
\* runs the closure, or waits for the thread that is running it.
get_config_manager(t) ==
    /\ th[t].pc = "idle"
    /\ manager # "ready"
    /\ IF OnceIncomplete
       THEN /\ manager' = "running"
            /\ th' = [th EXCEPT ![t].pc = "new"]
       ELSE /\ th' = [th EXCEPT ![t].pc = "once_wait"]
            /\ UNCHANGED manager
    /\ UNCHANGED <<news, preferences, lock, file, ioFailed, net, conv, community, hotkeys, search>>

\* A closure whose ConfigManager::new passes a load_preferences error on
\* with `?`, so that expect panics on it.
NewPropagatesLoadError(t) ==
    /\ th[t].pc = "new"
    /\ \E dirOk \in BOOLEAN, createOk \in BOOLEAN, readOk \in BOOLEAN, k \in 0..NChunks :
         LET r == load_preferences(file, createOk, readOk, k) IN
         IF (~file.exists /\ ~dirOk) \/ ~r.ok
         THEN /\ manager' = "uninit"
              /\ th' = [th EXCEPT ![t].pc = "panicked"]
              /\ file' = (IF ~file.exists /\ ~dirOk THEN file ELSE r.file)
              /\ ioFailed' = (~file.exists /\ dirOk)
              /\ UNCHANGED <<news, preferences>>
         ELSE /\ preferences' = r.prefs
              /\ file' = r.file
              /\ ioFailed' = FALSE
              /\ manager' = "ready"
              /\ news' = news + 1
              /\ th' = [th EXCEPT ![t].pc = "idle"]
    /\ UNCHANGED <<lock, net, conv, community, hotkeys, search>>

\* The closure: ConfigManager::new("MemeMeow").expect(..).  dirOk: whether a
\* missing config directory can be created; when it cannot, new returns Err,
\* expect panics in the calling thread and the cell stays uninitialised.
New(t) ==
    /\ th[t].pc = "new"
    /\ \E dirOk \in BOOLEAN, createOk \in BOOLEAN, readOk \in BOOLEAN, k \in 0..NChunks :
         IF ~file.exists /\ ~dirOk
         THEN /\ manager' = "uninit"
              /\ th' = [th EXCEPT ![t].pc = "panicked"]
              /\ UNCHANGED <<news, preferences, file, ioFailed>>
         ELSE LET r == load_preferences(file, createOk, readOk, k) IN
              /\ preferences' = (IF r.ok THEN r.prefs ELSE UserPreferencesDefault)
              /\ file' = r.file
              /\ ioFailed' = (~file.exists /\ ~r.ok)
              /\ manager' = "ready"
              /\ news' = news + 1
              /\ th' = [th EXCEPT ![t].pc = "idle"]
    /\ UNCHANGED <<lock, net, conv, community, hotkeys, search>>

\* A caller that waited in get_or_init: it returns the value once it is set,
\* and runs the closure itself when the thread that ran it panicked.
once_wait(t) ==
    /\ th[t].pc = "once_wait"
    /\ manager # "running"
    /\ IF manager = "ready"
       THEN th' = [th EXCEPT ![t].pc = "idle"] /\ UNCHANGED manager
       ELSE th' = [th EXCEPT ![t].pc = "new"] /\ manager' = "running"
    /\ UNCHANGED <<news, preferences, lock, file, ioFailed, net, conv, community, hotkeys, search>>

\* ------------------------------------------------- the store's operations
\* A thread may start a call once the manager exists and its last call returned.
Callable(t) == manager = "ready" /\ th[t].pc = "idle" /\ calls < MaxCalls

\* A busy lock on which the caller waits as Mutex::lock() does.
LockFailureWaits(t, op, arg) ==
    /\ lock # NoThread
    /\ th' = [th EXCEPT ![t] = Blocked(Invoke(@), op, arg)]
    /\ UNCHANGED <<preferences, lock, file, ioFailed>>

\* The Err(_) arm of a try_lock: the call returns the lock error at once.
LockFailure(t, op, arg) ==
    /\ ~TryLockOk
    /\ th' = [th EXCEPT ![t] = Returned(Invoke(@), op, arg, ErrLock)]
    /\ UNCHANGED <<preferences, lock, file, ioFailed>>

\* A call that takes the guard, reads and returns, dropping the guard; r is
\* the caller's record with the call counted.
ReadLocked(t, r, op, arg, value) ==
    /\ th' = [th EXCEPT ![t] = Returned(r, op, arg, Ok(value))]
    /\ UNCHANGED <<preferences, lock, file, ioFailed>>

\* A call that takes the guard, stores the new value p and goes on to
\* save_preferences_locked(&guard.clone()) with the guard held.
WriteLocked(t, r, op, arg, p) ==
    /\ lock' = t
    /\ preferences' = p
    /\ th' = [th EXCEPT ![t] = Saving(r, op, arg, preferences, p)]
    /\ UNCHANGED <<file, ioFailed>>

\* The resolution without the empty-list fallback to the built-in URL.
ActiveApiUrlNoFallback(config) ==
    IF config.urls = <<>> THEN ""
    ELSE LET index == IF config.active_index < Len(config.urls)
                      THEN config.active_index ELSE 0
         IN config.urls[index + 1].url

\* The urls[index].url the store resolves for an ApiUrlConfig.
ActiveApiUrl(config) ==
    IF config.urls = <<>> THEN DefaultUrl
    ELSE LET index == IF config.active_index < Len(config.urls)
                      THEN config.active_index ELSE 0
         IN config.urls[index + 1].url

\* Vec::remove(index), the index counted from 0.
VecRemove(v, index) == SubSeq(v, 1, index) \o SubSeq(v, index + 2, Len(v))

\* What remove_api_url leaves in guard.api_urls for an index in range.
RemoveUrl(config, index) ==
    LET urls == VecRemove(config.urls, index) IN
    [urls |-> urls,
     active_index |-> IF config.active_index >= Len(urls)
                      THEN 0 ELSE config.active_index]

get_preferences(t) ==
    /\ Callable(t)
    /\ \/ TryLockOk /\ ReadLocked(t, Invoke(th[t]), "get_preferences", 0, preferences)
       \/ LockFailure(t, "get_preferences", 0)
    /\ UNCHANGED <<manager, news, net, conv, community, hotkeys, search>>

\* update_preferences up to its call of self.save_preferences(), which it
\* makes inside the Ok(mut guard) arm, the guard alive.
update_preferences(t, new_prefs) ==
    /\ Callable(t)
    /\ \/ /\ TryLockOk
          /\ lock' = t
          /\ preferences' = new_prefs
          /\ th' = [th EXCEPT ![t] =
                 [pc |-> "save_preferences", op |-> "update_preferences",
                  arg |-> <<new_prefs>>, n |-> @.n + 1, pre |-> <<preferences>>,
                  buf |-> <<>>, pos |-> 0, res |-> NoResult]]
          /\ UNCHANGED <<file, ioFailed>>
       \/ LockFailure(t, "update_preferences", new_prefs)
    /\ UNCHANGED <<manager, news, net, conv, community, hotkeys, search>>

\* save_preferences: its own try_lock on self.preferences, then the clone and
\* the write; on a failed try_lock it returns the lock error.
save_preferences(t) ==
    /\ th[t].pc = "save_preferences"
    /\ IF TryLockOk
       THEN th' = [th EXCEPT ![t].pc = "create",
                             ![t].buf = Bytes(Serialize(preferences))]
       ELSE th' = [th EXCEPT ![t].pc = "unlock", ![t].res = ErrLock]
    /\ UNCHANGED <<net, conv, community, hotkeys, search, manager, news, preferences, lock, file, ioFailed>>

update_clipboard_setting(t, enabled) ==
    /\ Callable(t)
    /\ \/ /\ TryLockOk
          /\ WriteLocked(t, Invoke(th[t]), "update_clipboard_setting", enabled,
                         [preferences EXCEPT !.copy_to_clipboard = enabled])
       \/ LockFailure(t, "update_clipboard_setting", enabled)
    /\ UNCHANGED <<manager, news, net, conv, community, hotkeys, search>>

\* A get_active_api_url that stores the index it fell back to.
get_active_api_url_repairing(t) ==
    /\ Callable(t)
    /\ \/ /\ lock = NoThread
          /\ th' = [th EXCEPT ![t] = Returned(Invoke(@), "get_active_api_url", 0,
                                         Ok(ActiveApiUrl(preferences.api_urls)))]
          /\ preferences' =
                 IF preferences.api_urls.active_index >= Len(preferences.api_urls.urls)
                 THEN [preferences EXCEPT !.api_urls.active_index = 0]
                 ELSE preferences
          /\ UNCHANGED <<lock, file, ioFailed>>
       \/ LockFailure(t, "get_active_api_url", 0)
    /\ UNCHANGED <<manager, news, net, conv, community, hotkeys, search>>

get_active_api_url(t) ==
    /\ Callable(t)
    /\ \/ /\ TryLockOk
          /\ ReadLocked(t, Invoke(th[t]), "get_active_api_url", 0, ActiveApiUrl(preferences.api_urls))
       \/ LockFailure(t, "get_active_api_url", 0)
    /\ UNCHANGED <<manager, news, net, conv, community, hotkeys, search>>

get_api_url_config(t) ==
    /\ Callable(t)
    /\ \/ TryLockOk /\ ReadLocked(t, Invoke(th[t]), "get_api_url_config", 0, preferences.api_urls)
       \/ LockFailure(t, "get_api_url_config", 0)
    /\ UNCHANGED <<manager, news, net, conv, community, hotkeys, search>>

update_api_url_config(t, config) ==
    /\ Callable(t)
    /\ \/ /\ TryLockOk
          /\ WriteLocked(t, Invoke(th[t]), "update_api_url_config", config,
                         [preferences EXCEPT !.api_urls = config])
       \/ LockFailure(t, "update_api_url_config", config)
    /\ UNCHANGED <<manager, news, net, conv, community, hotkeys, search>>

\* A set_active_api_url whose range check is off by one.
set_active_api_url_off_by_one(t, index) ==
    /\ Callable(t)
    /\ \/ /\ TryLockOk
          /\ IF index <= Len(preferences.api_urls.urls)
             THEN WriteLocked(t, Invoke(th[t]), "set_active_api_url", index,
                      [preferences EXCEPT !.api_urls.active_index = index])
             ELSE /\ th' = [th EXCEPT ![t] =
                                Returned(Invoke(@), "set_active_api_url", index, ErrIndex)]
                  /\ UNCHANGED <<preferences, lock, file, ioFailed>>
       \/ LockFailure(t, "set_active_api_url", index)
    /\ UNCHANGED <<manager, news, net, conv, community, hotkeys, search>>

set_active_api_url(t, index) ==
    /\ Callable(t)
    /\ \/ /\ TryLockOk
          /\ IF index < Len(preferences.api_urls.urls)
             THEN WriteLocked(t, Invoke(th[t]), "set_active_api_url", index,
                      [preferences EXCEPT !.api_urls.active_index = index])
             ELSE /\ th' = [th EXCEPT ![t] =
                                Returned(Invoke(@), "set_active_api_url", index, ErrIndex)]
                  /\ UNCHANGED <<preferences, lock, file, ioFailed>>
       \/ LockFailure(t, "set_active_api_url", index)
    /\ UNCHANGED <<manager, news, net, conv, community, hotkeys, search>>

add_api_url(t, api_url) ==
    /\ Callable(t)
    /\ Len(preferences.api_urls.urls) < MaxUrls
    /\ \/ /\ TryLockOk
          /\ WriteLocked(t, Invoke(th[t]), "add_api_url", api_url,
                 [preferences EXCEPT !.api_urls.urls = Append(@, api_url)])
       \/ LockFailure(t, "add_api_url", api_url)
    /\ UNCHANGED <<manager, news, net, conv, community, hotkeys, search>>

\* A remove_api_url whose range check is off by one.
remove_api_url_off_by_one(t, index) ==
    /\ Callable(t)
    /\ \/ /\ TryLockOk
          /\ IF index <= Len(preferences.api_urls.urls)
             THEN WriteLocked(t, Invoke(th[t]), "remove_api_url", index,
                      [preferences EXCEPT !.api_urls = RemoveUrl(@, index)])
             ELSE /\ th' = [th EXCEPT ![t] =
                                Returned(Invoke(@), "remove_api_url", index, ErrIndex)]
                  /\ UNCHANGED <<preferences, lock, file, ioFailed>>
       \/ LockFailure(t, "remove_api_url", index)
    /\ UNCHANGED <<manager, news, net, conv, community, hotkeys, search>>

remove_api_url(t, index) ==
    /\ Callable(t)
    /\ \/ /\ TryLockOk
          /\ IF index < Len(preferences.api_urls.urls)
             THEN WriteLocked(t, Invoke(th[t]), "remove_api_url", index,
                      [preferences EXCEPT !.api_urls = RemoveUrl(@, index)])
             ELSE /\ th' = [th EXCEPT ![t] =
                                Returned(Invoke(@), "remove_api_url", index, ErrIndex)]
                  /\ UNCHANGED <<preferences, lock, file, ioFailed>>
       \/ LockFailure(t, "remove_api_url", index)
    /\ UNCHANGED <<manager, news, net, conv, community, hotkeys, search>>

\* The body of a call that uses Mutex::lock(), run once the lock is taken.
LockedBody(t, r, op, arg) ==
    IF op = "update_shortcuts"
    THEN WriteLocked(t, r, op, arg, [preferences EXCEPT !.shortcuts = arg])
    ELSE IF op = "get_shortcuts"
    THEN ReadLocked(t, r, op, arg, preferences.shortcuts)
    ELSE ReadLocked(t, r, op, arg, to_tauri_shortcut(preferences.shortcuts.toggle_app))

\* A call that uses try_lock where the code uses Mutex::lock().
LockCallTry(t, op, arg) ==
    /\ Callable(t)
    /\ \/ TryLockOk /\ LockedBody(t, Invoke(th[t]), op, arg)
       \/ LockFailure(t, op, arg)
    /\ UNCHANGED <<manager, news, net, conv, community, hotkeys, search>>

\* A call that uses Mutex::lock(): it takes a free lock, and waits for a held one.
LockCall(t, op, arg) ==
    /\ Callable(t)
    /\ IF TryLockOk
       THEN LockedBody(t, Invoke(th[t]), op, arg)
       ELSE /\ th' = [th EXCEPT ![t] = Blocked(Invoke(@), op, arg)]
            /\ UNCHANGED <<preferences, lock, file, ioFailed>>
    /\ UNCHANGED <<manager, news, net, conv, community, hotkeys, search>>

update_shortcuts(t, shortcuts) == LockCall(t, "update_shortcuts", shortcuts)

get_shortcuts(t) == LockCall(t, "get_shortcuts", 0)

get_toggle_app_shortcut(t) == LockCall(t, "get_toggle_app_shortcut", 0)

\* Mutex::lock() returns to a waiting caller once the holder dropped its guard.
lock_acquired(t) ==
    /\ th[t].pc = "blocked"
    /\ lock = NoThread
    /\ LockedBody(t, th[t], th[t].op, th[t].arg[1])
    /\ UNCHANGED <<manager, news, net, conv, community, hotkeys, search>>

\* File::create(&self.path)?: truncates the file, or fails and returns the error.
file_create(t) ==
    /\ th[t].pc = "create"
    /\ \/ /\ file' = [exists |-> TRUE, data |-> <<>>]
          /\ th' = [th EXCEPT ![t].pc = "write"]
          /\ UNCHANGED ioFailed
       \/ /\ th' = [th EXCEPT ![t].pc = "unlock", ![t].res = ErrIo]
          /\ ioFailed' = TRUE
          /\ UNCHANGED file
    /\ UNCHANGED <<net, conv, community, hotkeys, search, manager, news, preferences, lock>>

\* The file after a write() of piece pos+1 of buf at offset pos of the handle.
WriteAt(data, buf, pos) ==
    LET gap == [i \in 1..(pos - Len(data)) |-> [doc |-> buf[1].doc, part |-> 0]]
        head == SubSeq(data, 1, pos) \o gap
    IN head \o <<buf[pos + 1]>> \o SubSeq(data, pos + 2, Len(data))

\* file.write_all(json.as_bytes())?: one write() per step; a write() may fail.
write_all(t) ==
    /\ th[t].pc = "write"
    /\ \/ /\ file' = [file EXCEPT !.data = WriteAt(@, th[t].buf, th[t].pos)]
          /\ th' = [th EXCEPT
                 ![t].pos = @ + 1,
                 ![t].pc = IF th[t].pos + 1 = NChunks THEN "unlock" ELSE "write",
                 ![t].res = IF th[t].pos + 1 = NChunks THEN OkUnit ELSE NoResult]
          /\ UNCHANGED ioFailed
       \/ /\ th' = [th EXCEPT ![t].pc = "unlock", ![t].res = ErrIo]
          /\ ioFailed' = TRUE
          /\ UNCHANGED file
    /\ UNCHANGED <<net, conv, community, hotkeys, search, manager, news, preferences, lock>>

\* The operation returns: its MutexGuard goes out of scope.
Return(t) ==
    /\ th[t].pc = "unlock"
    /\ lock' = NoThread
    /\ th' = [th EXCEPT ![t].pc = "idle", ![t].pre = <<>>, ![t].pos = 0]
    /\ UNCHANGED <<net, conv, community, hotkeys, search, manager, news, preferences, file, ioFailed>>

Next ==
    \/ \E t \in Threads : get_config_manager(t)
    \/ \E t \in Threads : New(t)
    \/ \E t \in Threads : once_wait(t)
    \/ \E t \in Threads : get_preferences(t)
    \/ \E t \in Threads, p \in PrefsInputs : update_preferences(t, p)
    \/ \E t \in Threads : save_preferences(t)
    \/ \E t \in Threads, b \in BOOLEAN : update_clipboard_setting(t, b)
    \/ \E t \in Threads, s \in ShortcutInputs : update_shortcuts(t, s)
    \/ \E t \in Threads : get_shortcuts(t)
    \/ \E t \in Threads : get_toggle_app_shortcut(t)
    \/ \E t \in Threads : lock_acquired(t)
    \/ \E t \in Threads : get_active_api_url(t)
    \/ \E t \in Threads : get_api_url_config(t)
    \/ \E t \in Threads, c \in ConfigInputs : update_api_url_config(t, c)
    \/ \E t \in Threads, i \in IndexInputs : set_active_api_url(t, i)
    \/ \E t \in Threads, u \in ApiUrlInputs : add_api_url(t, u)
    \/ \E t \in Threads, i \in IndexInputs : remove_api_url(t, i)
    \/ \E t \in Threads : file_create(t)
    \/ \E t \in Threads : write_all(t)
    \/ \E t \in Threads : Return(t)

Spec == Init /\ [][Next]_vars

\* ------------------------------------------------ the calls that wait
\* The shortcut operations, which wait for the lock, beside a write that
\* holds it over its file write, once the manager exists.
BlockingInit ==
    /\ manager = "ready"
    /\ news = 1
    /\ preferences \in {UserPreferencesDefault,
                         [UserPreferencesDefault EXCEPT !.copy_to_clipboard = FALSE]}
    /\ lock = NoThread
    /\ file = FileOf(Serialize(preferences))
    /\ th = [t \in Threads |-> Idle]
    /\ ioFailed = FALSE
    /\ net = NetIdle
    /\ community = CommunityIdle
    /\ hotkeys = HotkeysIdle
    /\ search = SearchIdle
    /\ conv = ConvIdle

\* What a thread inside a call does next: take the lock it waits for, write,
\* return.  A running thread goes on running.
Progress(t) ==
    \/ lock_acquired(t)
    \/ file_create(t)
    \/ write_all(t)
    \/ Return(t)

BlockingNext ==
    \/ \E t \in Threads, b \in BOOLEAN : update_clipboard_setting(t, b)
    \/ \E t \in Threads, s \in ShortcutInputs : update_shortcuts(t, s)
    \/ \E t \in Threads : get_shortcuts(t)
    \/ \E t \in Threads : get_toggle_app_shortcut(t)
    \/ \E t \in Threads : Progress(t)

BlockingSpec ==
    BlockingInit /\ [][BlockingNext]_vars /\ \A t \in Threads : WF_vars(Progress(t))

\* ------------------------------------------- download_with_fallback_urls
\* let mut timeout = 3; let max_timeout = 10;
initial_timeout == 3
max_timeout == 10

\* The longest candidate list a caller passes.
MaxCandidates == 2

CandidateUrls == {"https://a.example/manifest.json", "https://b.example/manifest.json"}

\* The lists callers pass: any urls in any order, repeats and the empty list
\* included.
UrlLists ==
    UNION {[1..n -> CandidateUrls] : n \in 0..MaxCandidates}

\* What the network does to one request: the client's timeout expires, the
\* connection fails, the response has a non-success status, reading the body
\* fails, or the body arrives.
Outcomes == {"timeout", "connect", "status", "body", "ok"}

\* The text the server of url serves.
Body(url) == [text_of |-> url]

\* download_single_url(client, url), the network doing outcome.
download_single_url(url, outcome) ==
    IF outcome = "timeout" THEN Err("request failed: operation timed out")
    ELSE IF outcome = "connect" THEN Err("request failed: error sending request")
    ELSE IF outcome = "status" THEN Err("status code error: 503")
    ELSE IF outcome = "body" THEN Err("reading the response body failed")
    ELSE Ok(Body(url))

\* Err("创建HTTP客户端失败: ..."), Err("URL列表为空") and
\* Err("无法从任何提供的URL下载内容")
ErrClient == Err("creating the HTTP client failed")
ErrEmpty == Err("the URL list is empty")
ErrExhausted == Err("cannot download from any of the given URLs")

\* A back-off that adds the first timeout instead of doubling.
NextTimeoutLinear(timeout) == timeout + initial_timeout

\* timeout *= 2
NextTimeout(timeout) == timeout * 2

FetchInit ==
    /\ manager = "uninit"
    /\ news = 0
    /\ preferences = UserPreferencesDefault
    /\ lock = NoThread
    /\ file = AbsentFile
    /\ th = [t \in Threads |-> Idle]
    /\ ioFailed = FALSE
    /\ net = NetIdle
    /\ community = CommunityIdle
    /\ hotkeys = HotkeysIdle
    /\ search = SearchIdle
    /\ conv = ConvIdle

\* The call, up to the while loop.
download_with_fallback_urls(urls) ==
    /\ net.pc = "idle"
    /\ IF urls = <<>>
       THEN net' = [net EXCEPT !.pc = "done", !.res = ErrEmpty]
       ELSE net' = [net EXCEPT !.pc = "tier", !.urls = urls,
                               !.timeout = initial_timeout]
    /\ UNCHANGED <<manager, news, preferences, lock, file, th, ioFailed, conv, community, hotkeys, search>>

\* A while loop that tests the timeout against twice the ceiling.
build_client_past_ceiling ==
    /\ net.pc = "tier"
    /\ IF net.timeout <= 2 * max_timeout
       THEN \/ net' = [net EXCEPT !.pc = "send", !.i = 0]
            \/ net' = [net EXCEPT !.pc = "done", !.res = ErrClient]
       ELSE net' = [net EXCEPT !.pc = "done", !.res = ErrExhausted]
    /\ UNCHANGED <<manager, news, preferences, lock, file, th, ioFailed, conv, community, hotkeys, search>>

\* The head of the while loop: the test of the timeout, and the client built
\* with it, which may fail; past max_timeout the call returns the final error.
build_client ==
    /\ net.pc = "tier"
    /\ IF net.timeout <= max_timeout
       THEN \/ net' = [net EXCEPT !.pc = "send", !.i = 0]
            \/ net' = [net EXCEPT !.pc = "done", !.res = ErrClient]
       ELSE net' = [net EXCEPT !.pc = "done", !.res = ErrExhausted]
    /\ UNCHANGED <<manager, news, preferences, lock, file, th, ioFailed, conv, community, hotkeys, search>>

\* A for loop after which the timeout stays as it is.
send_no_backoff ==
    /\ net.pc = "send"
    /\ IF net.i < Len(net.urls)
       THEN net' = [net EXCEPT !.pc = "await", !.inflight = @ \cup {net.i}]
       ELSE net' = [net EXCEPT !.pc = "tier"]
    /\ UNCHANGED <<manager, news, preferences, lock, file, th, ioFailed, conv, community, hotkeys, search>>

\* The head of the for loop: the request to the next url is sent, or, the
\* list done, the timeout grows and the while loop goes round.
send ==
    /\ net.pc = "send"
    /\ IF net.i < Len(net.urls)
       THEN net' = [net EXCEPT !.pc = "await", !.inflight = @ \cup {net.i}]
       ELSE net' = [net EXCEPT !.pc = "tier", !.timeout = NextTimeout(@)]
    /\ UNCHANGED <<manager, news, preferences, lock, file, th, ioFailed, conv, community, hotkeys, search>>

\* The attempt net has in flight, with the result r it ends in.
Attempt(r) ==
    [url |-> net.urls[net.i + 1], i |-> net.i, timeout |-> net.timeout, res |-> r]

\* A loop that keeps going after a success and returns, at the end of the
\* pass, the last body it got.
attempt_done_no_short_circuit(outcome) ==
    /\ net.pc = "await"
    /\ LET r == download_single_url(net.urls[net.i + 1], outcome)
           got == IF r.kind = "Ok" THEN r ELSE net.res
       IN  net' = [net EXCEPT !.log = Append(@, Attempt(r)),
                              !.inflight = @ \ {net.i},
                              !.res = got,
                              !.i = @ + 1,
                              !.pc = IF got.kind = "Ok" /\ net.i + 1 = Len(net.urls)
                                     THEN "done" ELSE "send"]
    /\ UNCHANGED <<manager, news, preferences, lock, file, th, ioFailed, conv, community, hotkeys, search>>

\* A loop in which a non-success status ends the call with that error.
attempt_done_status_fatal(outcome) ==
    /\ net.pc = "await"
    /\ LET r == download_single_url(net.urls[net.i + 1], outcome) IN
       IF r.kind = "Ok" \/ outcome = "status"
       THEN net' = [net EXCEPT !.log = Append(@, Attempt(r)),
                               !.inflight = @ \ {net.i},
                               !.pc = "done", !.res = r]
       ELSE net' = [net EXCEPT !.log = Append(@, Attempt(r)),
                               !.inflight = @ \ {net.i},
                               !.pc = "send", !.i = @ + 1]
    /\ UNCHANGED <<manager, news, preferences, lock, file, th, ioFailed, conv, community, hotkeys, search>>

\* download_single_url(&client, url).await returns: Ok(content) ends the
\* call with the content; Err(e) is logged and the for loop goes on.
attempt_done(outcome) ==
    /\ net.pc = "await"
    /\ LET r == download_single_url(net.urls[net.i + 1], outcome) IN
       IF r.kind = "Ok"
       THEN net' = [net EXCEPT !.log = Append(@, Attempt(r)),
                               !.inflight = @ \ {net.i},
                               !.pc = "done", !.res = r]
       ELSE net' = [net EXCEPT !.log = Append(@, Attempt(r)),
                               !.inflight = @ \ {net.i},
                               !.pc = "send", !.i = @ + 1]
    /\ UNCHANGED <<manager, news, preferences, lock, file, th, ioFailed, conv, community, hotkeys, search>>

FetchNext ==
    \/ \E urls \in UrlLists : download_with_fallback_urls(urls)
    \/ build_client
    \/ send
    \/ \E outcome \in Outcomes : attempt_done(outcome)

FetchSpec == FetchInit /\ [][FetchNext]_vars

\* The call is driven to its end: the future is awaited, every client is
\* built or refused, and every request ends, by its timeout at the latest.
FetchFairSpec == FetchInit /\ [][FetchNext]_vars /\ WF_vars(FetchNext)

\* ------------------------------------- bindings handed to to_tauri_shortcut
\* The longest modifier list of a binding handed in, and the number of edits
\* made to a list.
MaxMods == 2
MaxEdits == 2

\* The key strings handed in: the names of the arms, and others: upper-case
\* forms, the empty string, names of keys the match does not have.
KeyInputs ==
    {KeyTable[e][1] : e \in 1..Len(KeyTable)} \cup
    {<<"A">>, <<"K">>, <<"Z">>, <<"V">>,
     <<"F", "1">>, <<"F", "1", "2">>, <<>>, <<"f", "0">>,
     <<"f", "1", "3">>, <<"f">>, <<"1", "0">>, <<"a", "a">>,
     <<"s", "p", "a", "c", "e">>, <<"e", "n", "t", "e", "r">>, <<"-">>, <<"c", "t", "r", "l">>}

\* A token no arm recognises.
hyper == <<"h", "y", "p", "e", "r">>
\* The tokens of the lists handed in (alt comes with the default modifiers).
ModifierInputs == {ctrl, shift, meta, super, command, hyper}
ModifierLists == UNION {[1..n -> ModifierInputs] : n \in 0..MaxMods}

Binding(modifiers, key) ==
    [modifiers |-> modifiers, key |-> key, action |-> "toggle_window"]

\* The pairs of bindings handed in: two keys under the default modifiers, and
\* a modifier list, of which b's is then edited.
ConvInputs ==
    {<<Binding(<<ctrl, alt>>, k1), Binding(<<ctrl, alt>>, k2)>> :
         k1 \in KeyInputs, k2 \in KeyInputs}
    \cup {<<Binding(m, <<"v">>), Binding(m, <<"v">>)>> : m \in ModifierLists}

ConvInit ==
    /\ manager = "uninit"
    /\ news = 0
    /\ preferences = UserPreferencesDefault
    /\ lock = NoThread
    /\ file = AbsentFile
    /\ th = [t \in Threads |-> Idle]
    /\ ioFailed = FALSE
    /\ net = NetIdle
    /\ community = CommunityIdle
    /\ hotkeys = HotkeysIdle
    /\ search = SearchIdle
    /\ \E p \in ConvInputs : conv = [a |-> p[1], b |-> p[2], edits |-> 0, out |-> <<>>]

\* b's modifier list may be edited while to_tauri_shortcut has not run.
Editable ==
    /\ conv.out = <<>>
    /\ conv.a.key = conv.b.key
    /\ conv.edits < MaxEdits

Edited(modifiers) ==
    /\ conv' = [conv EXCEPT !.b.modifiers = modifiers, !.edits = @ + 1]
    /\ UNCHANGED <<manager, news, preferences, lock, file, th, ioFailed, net, community, hotkeys, search>>

\* char::to_uppercase on the characters used here.
UpperChar(c) ==
    IF \E j \in 1..Len(Lowercase) : Lowercase[j] = c
    THEN Uppercase[CHOOSE j \in 1..Len(Lowercase) : Lowercase[j] = c]
    ELSE c

\* The user swaps two neighbours of the list.
permute(i) ==
    /\ Editable
    /\ i \in 1..(Len(conv.b.modifiers) - 1)
    /\ Edited([conv.b.modifiers EXCEPT ![i] = conv.b.modifiers[i + 1],
                                       ![i + 1] = conv.b.modifiers[i]])

\* The user repeats a token of the list.
duplicate(i) ==
    /\ Editable
    /\ i \in 1..Len(conv.b.modifiers)
    /\ Edited(Append(conv.b.modifiers, conv.b.modifiers[i]))

\* The user retypes a token in capitals (all == TRUE) or with a capital first
\* letter.
recase(i, all) ==
    /\ Editable
    /\ i \in 1..Len(conv.b.modifiers)
    /\ Edited([conv.b.modifiers EXCEPT ![i] =
                  [j \in 1..Len(@) |-> IF all \/ j = 1 THEN UpperChar(@[j]) ELSE @[j]]])

\* The user adds a token no arm recognises.
add_unrecognized(i) ==
    /\ Editable
    /\ i \in 0..Len(conv.b.modifiers)
    /\ Edited(SubSeq(conv.b.modifiers, 1, i) \o <<hyper>>
              \o SubSeq(conv.b.modifiers, i + 1, Len(conv.b.modifiers)))

\* The program converts the two bindings.
convert ==
    /\ conv.out = <<>>
    /\ conv' = [conv EXCEPT !.out = <<to_tauri_shortcut(conv.a),
                                      to_tauri_shortcut(conv.b)>>]
    /\ UNCHANGED <<manager, news, preferences, lock, file, th, ioFailed, net, community, hotkeys, search>>

ConvNext ==
    \/ \E i \in 1..(MaxMods + MaxEdits) : permute(i)
    \/ \E i \in 1..(MaxMods + MaxEdits) : duplicate(i)
    \/ \E i \in 1..(MaxMods + MaxEdits), all \in BOOLEAN : recase(i, all)
    \/ \E i \in 0..(MaxMods + MaxEdits) : add_unrecognized(i)
    \/ convert

ConvSpec == ConvInit /\ [][ConvNext]_vars

\* --------------------------------------------- a write and a later load
\* The UserPreferences values a store may hold: either flag, a binding with
\* or without modifiers, any endpoint list with any index.
PreferencesValues ==
    [copy_to_clipboard : BOOLEAN,
     shortcuts : {[toggle_app |-> b] :
                     b \in {ShortcutConfigDefault, default_toggle_app_shortcut,
                            UserShortcut, Binding(<<>>, <<>>)}},
     api_urls : [urls : {<<>>, default_api_urls, <<Mirror1, Mirror2>>},
                 active_index : 0..MaxUrls]]

\* A store holding some value, its file not yet written.
RoundTripInit ==
    /\ manager = "ready"
    /\ news = 1
    /\ preferences \in PreferencesValues
    /\ lock = NoThread
    /\ file = AbsentFile
    /\ th = [t \in Threads |-> Idle]
    /\ ioFailed = FALSE
    /\ net = NetIdle
    /\ community = CommunityIdle
    /\ hotkeys = HotkeysIdle
    /\ search = SearchIdle
    /\ conv = ConvIdle

\* save_preferences_locked(&prefs) as a whole: File::create, then k of the
\* write() calls of write_all succeed.
save_preferences_locked(createOk, k) ==
    /\ manager = "ready"
    /\ ~file.exists
    /\ IF createOk
       THEN /\ file' = Written(Bytes(Serialize(preferences)), k)
            /\ ioFailed' = (k < NChunks)
       ELSE /\ ioFailed' = TRUE
            /\ UNCHANGED file
    /\ UNCHANGED <<manager, news, preferences, lock, th, net, conv, community, hotkeys, search>>

\* load_preferences(&path) run on the file as it is; its Result is kept.
load(t, createOk, readOk, k) ==
    /\ th[t].op = "none" /\ th[t].pc = "idle"
    /\ LET r == load_preferences(file, createOk, readOk, k) IN
       /\ file' = r.file
       /\ th' = [th EXCEPT ![t] = Returned(Invoke(@), "load_preferences", 0,
                                          IF r.ok THEN Ok(r.prefs) ELSE ErrIo)]
    /\ UNCHANGED <<manager, news, preferences, lock, ioFailed, net, conv, community, hotkeys, search>>

\* The process ends; the next one starts with CONFIG_MANAGER unset.  The
\* variable preferences keeps the value the ended process held, which no
\* operation reads before ConfigManager::new has replaced it.
exit ==
    /\ manager = "ready"
    /\ \A t \in Threads : th[t].pc = "idle"
    /\ manager' = "uninit"
    /\ news' = 0
    /\ UNCHANGED <<preferences, lock, file, th, ioFailed, net, conv, community, hotkeys, search>>

RoundTripNext ==
    \/ \E createOk \in BOOLEAN, k \in 0..NChunks : save_preferences_locked(createOk, k)
    \/ \E t \in Threads, createOk \in BOOLEAN, readOk \in BOOLEAN, k \in 0..NChunks :
          load(t, createOk, readOk, k)
    \/ exit
    \/ \E t \in Threads : get_config_manager(t)
    \/ \E t \in Threads : New(t)
    \/ \E t \in Threads : once_wait(t)

RoundTripSpec == RoundTripInit /\ [][RoundTripNext]_vars

\* ------------------------------------------------------ the manifest cache
\* Two manifests the server may publish, as CommunityManifest values.
Manifest1 == [community_info |-> [timestamp |-> 1], meme_libs |-> {"lib-a"}]
Manifest2 == [community_info |-> [timestamp |-> 2],
              meme_libs |-> {"lib-a", "lib-b"}]

\* Texts: utf8, whether the bytes are valid UTF-8; manifest, the
\* CommunityManifest the text is the JSON of, <<>> when it is the JSON of none.
TextOf(m) == [utf8 |-> TRUE, manifest |-> <<m>>]
ErrorPage == [utf8 |-> TRUE, manifest |-> <<>>]
Binary == [utf8 |-> FALSE, manifest |-> <<>>]

\* fs::read_to_string: the contents, unless they are not valid UTF-8.
read_to_string(f) ==
    IF \A i \in 1..Len(f.data) : f.data[i].doc.utf8 THEN Some(f.data) ELSE None

\* serde_json::from_str::<CommunityManifest>: the manifest of a whole text
\* that is the JSON of one.
from_str(data) ==
    IF Parses(data) /\ data[1].doc.manifest # <<>>
    THEN Some(data[1].doc.manifest[1]) ELSE None

\* load_manifest_from_cache() where the cache directory and file are as in c.
load_manifest_from_cache(c) ==
    IF ~c.dir THEN Err("no cache directory")
    ELSE IF ~c.cache.exists THEN Err("no cache file")
    ELSE IF read_to_string(c.cache) = None THEN Err("cannot read cache file")
    ELSE IF from_str(read_to_string(c.cache)[1]) = None
         THEN Err("cannot parse cached JSON")
    ELSE Ok(from_str(read_to_string(c.cache)[1])[1])

\* save_manifest_to_cache(content).  createOk: whether create_dir_all and the
\* File::create of fs::write succeed; k: how many write() calls succeed.
\* The result: ok, and the cache file afterwards.
save_manifest_to_cache(c, content, createOk, k) ==
    IF ~c.dir \/ ~createOk THEN [ok |-> FALSE, cache |-> c.cache]
    ELSE [ok |-> k = NChunks, cache |-> Written(Bytes(content), k)]

\* What the manifest URL answers: no connection, a failure status, a body
\* that breaks off, or a body.
ManifestOutcomes == {"connect", "status", "body", "ok"}
ManifestBodies == {TextOf(Manifest1), TextOf(Manifest2), ErrorPage}

\* What the cache directory may hold when a fetch starts: nothing, an empty
\* file, a manifest an earlier run cached, a cut-off one, bytes that are no text.
CacheFiles ==
    {AbsentFile,
     [exists |-> TRUE, data |-> <<>>],
     FileOf(TextOf(Manifest1)),
     Written(Bytes(TextOf(Manifest1)), NChunks - 1),
     FileOf(ErrorPage),
     FileOf(Binary)}

MaxFetches == 2

ManifestInit ==
    /\ manager = "uninit"
    /\ news = 0
    /\ preferences = UserPreferencesDefault
    /\ lock = NoThread
    /\ file = AbsentFile
    /\ th = [t \in Threads |-> Idle]
    /\ ioFailed = FALSE
    /\ net = NetIdle
    /\ \E c \in CacheFiles, d \in BOOLEAN :
           community = [CommunityIdle EXCEPT !.cache = c, !.dir = d]
    /\ hotkeys = HotkeysIdle
    /\ search = SearchIdle
    /\ conv = ConvIdle

\* A download that passes the cache's write failure on to its caller.
download_community_manifest_save_fatal(outcome, body, createOk, k) ==
    /\ community.pc = "await"
    /\ LET s == save_manifest_to_cache(community, body, createOk, k)
       IN  community' =
               [community EXCEPT
                   !.pc = "idle",
                   !.cache = IF outcome = "ok" /\ body.manifest # <<>>
                             THEN s.cache ELSE @,
                   !.res = IF outcome = "connect" THEN Err("download failed")
                           ELSE IF outcome = "status" THEN Err("download failed: status")
                           ELSE IF outcome = "body" THEN Err("cannot read body")
                           ELSE IF body.manifest = <<>> THEN Err("cannot parse JSON")
                           ELSE IF ~s.ok THEN Err("cannot write cache")
                           ELSE Ok(body.manifest[1])]
    /\ UNCHANGED <<manager, news, preferences, lock, file, th, ioFailed, net, conv, hotkeys, search>>

\* download_community_manifest() from the answer of reqwest::get on: the
\* status check, the body, its parse, the write to the cache, whose failure is
\* logged only.
download_community_manifest(outcome, body, createOk, k) ==
    /\ community.pc = "await"
    /\ LET s == save_manifest_to_cache(community, body, createOk, k)
       IN  community' =
               [community EXCEPT
                   !.pc = "idle",
                   !.cache = IF outcome = "ok" /\ body.manifest # <<>>
                             THEN s.cache ELSE @,
                   !.res = IF outcome = "connect" THEN Err("download failed")
                           ELSE IF outcome = "status" THEN Err("download failed: status")
                           ELSE IF outcome = "body" THEN Err("cannot read body")
                           ELSE IF body.manifest = <<>> THEN Err("cannot parse JSON")
                           ELSE Ok(body.manifest[1])]
    /\ UNCHANGED <<manager, news, preferences, lock, file, th, ioFailed, net, conv, hotkeys, search>>

\* fetch_community_manifest(): the cached manifest, or else
\* download_community_manifest() up to its reqwest::get(MANIFEST_URL).await.
fetch_community_manifest ==
    /\ community.pc = "idle"
    /\ community.n < MaxFetches
    /\ LET r == load_manifest_from_cache(community)
       IN  IF r.kind = "Ok"
           THEN community' = [community EXCEPT !.n = @ + 1, !.op = "fetch",
                                               !.res = r]
           ELSE community' = [community EXCEPT !.n = @ + 1, !.op = "fetch",
                                               !.res = NoResult,
                                               !.pc = "await",
                                               !.requests = @ + 1]
    /\ UNCHANGED <<manager, news, preferences, lock, file, th, ioFailed, net, conv, hotkeys, search>>

\* refresh_community_manifest(): download_community_manifest() up to its
\* reqwest::get(MANIFEST_URL).await.
refresh_community_manifest ==
    /\ community.pc = "idle"
    /\ community.n < MaxFetches
    /\ community' = [community EXCEPT !.n = @ + 1, !.op = "refresh",
                                      !.res = NoResult, !.pc = "await",
                                      !.requests = @ + 1]
    /\ UNCHANGED <<manager, news, preferences, lock, file, th, ioFailed, net, conv, hotkeys, search>>

ManifestNext ==
    \/ fetch_community_manifest
    \/ refresh_community_manifest
    \/ \E outcome \in ManifestOutcomes, body \in ManifestBodies,
          createOk \in BOOLEAN, k \in 0..NChunks :
           download_community_manifest(outcome, body, createOk, k)

ManifestSpec == ManifestInit /\ [][ManifestNext]_vars

\* ------------------------------------------------------- refresh_shortcuts
\* The bindings the settings page stores with set_shortcuts.
HotkeyBindings ==
    {[toggle_app |-> b] :
        b \in {ShortcutConfigDefault, default_toggle_app_shortcut, UserShortcut}}

\* Shortcut::new(Some(mods), code) of the binding the store holds.
toggle_shortcut == to_tauri_shortcut(preferences.shortcuts.toggle_app)

\* The shortcuts of those bindings.
HotkeyShortcuts == {to_tauri_shortcut(s.toggle_app) : s \in HotkeyBindings}

MaxRefreshes == 2

\* The application once setup has run: the manager exists, and
\* register_app_shortcuts has registered the shortcut of the stored binding,
\* or nothing where the OS refused it.
HotkeyInit ==
    /\ manager = "ready"
    /\ news = 1
    /\ preferences \in {[UserPreferencesDefault EXCEPT !.shortcuts = s] :
                           s \in HotkeyBindings}
    /\ lock = NoThread
    /\ file = FileOf(Serialize(preferences))
    /\ th = [t \in Threads |-> Idle]
    /\ ioFailed = FALSE
    /\ net = NetIdle
    /\ community = CommunityIdle
    /\ \E r \in {{}, {toggle_shortcut}} :
           hotkeys = [HotkeysIdle EXCEPT !.registered = r]
    /\ search = SearchIdle
    /\ conv = ConvIdle

\* refresh_shortcuts up to get_toggle_app_shortcut's Mutex::lock():
\* unregister_all(), whose Result the statement drops, leaves registered the
\* shortcuts in kept (none when it succeeds); then CONFIG_MANAGER.get().
unregister_all(kept) ==
    /\ hotkeys.pc = "idle"
    /\ hotkeys.n < MaxRefreshes
    /\ kept \subseteq hotkeys.registered
    /\ IF manager = "ready"
       THEN hotkeys' = [hotkeys EXCEPT !.registered = kept, !.pc = "lock",
                                       !.n = @ + 1, !.res = NoResult]
       ELSE hotkeys' = [hotkeys EXCEPT !.registered = kept, !.n = @ + 1,
                                       !.res = Err("config manager not initialised")]
    /\ UNCHANGED <<manager, news, preferences, lock, file, th, ioFailed, net, conv, community, search>>

\* refresh_shortcuts from the lock on: get_toggle_app_shortcut() reads the
\* binding under the lock, register(toggle_shortcut) succeeds or fails (it
\* fails for a shortcut that is registered already), and the command returns.
register(ok) ==
    /\ hotkeys.pc = "lock"
    /\ lock = NoThread
    /\ IF ok /\ toggle_shortcut \notin hotkeys.registered
       THEN hotkeys' = [hotkeys EXCEPT !.registered = @ \cup {toggle_shortcut},
                                       !.pc = "idle", !.res = OkUnit]
       ELSE hotkeys' = [hotkeys EXCEPT !.pc = "idle",
                                       !.res = Err("cannot register shortcut")]
    /\ UNCHANGED <<manager, news, preferences, lock, file, th, ioFailed, net, conv, community, search>>

\* set_shortcuts(shortcuts): update_shortcuts and the write of the file.
set_shortcuts(t, shortcuts) ==
    /\ update_shortcuts(t, shortcuts)

HotkeyNext ==
    \/ \E kept \in SUBSET HotkeyShortcuts : unregister_all(kept)
    \/ \E ok \in BOOLEAN : register(ok)
    \/ \E t \in Threads, s \in HotkeyBindings : set_shortcuts(t, s)
    \/ \E t \in Threads : lock_acquired(t)
    \/ \E t \in Threads : file_create(t)
    \/ \E t \in Threads : write_all(t)
    \/ \E t \in Threads : Return(t)

HotkeySpec == HotkeyInit /\ [][HotkeyNext]_vars

\* ------------------------------------------------------------ search_memes
\* MemeServerConfig.api_url of the client get_meme_client() builds.
ClientApiUrl == "https://api.zvv.quest/search"

\* An endpoint whose url a user typed without a scheme: the store takes any
\* String.
Typo == [name |-> "typo", url |-> "m1.example"]

\* Url::parse: the url of a string that has a scheme and a host.
UrlParse(s) ==
    IF s \in {DefaultUrl, Mirror1.url, Mirror2.url, ClientApiUrl}
    THEN Some(s) ELSE None

\* Response bodies: the JSON of a MemeSearchResponse, JSON without its
\* results field, and a text that is no JSON (a proxy's error page).
SearchBodies ==
    {[json |-> TRUE, results |-> Some(<<"https://img.example/1.png">>)],
     [json |-> TRUE, results |-> Some(<<>>)],
     [json |-> TRUE, results |-> None],
     [json |-> FALSE, results |-> None]}

\* serde_json::from_str::<MemeSearchResponse>(&json_data)
ParseSearchResponse(body) ==
    IF body.json /\ body.results # None THEN Some(body.results[1]) ELSE None

\* The MemeItem of each url of the results (its id is a fresh uuid).
MemeItems(results) ==
    [i \in 1..Len(results) |-> [url |-> results[i], description |-> None]]

\* What the network does to the POST: the request fails (no connection, the
\* 10 s timeout), reading the body fails, or a body arrives.
SearchOutcomes == {"send", "body", "ok"}

Keywords == {"", "  ", "cat"}
\* str::trim().is_empty()
IsBlank(keyword) == keyword \in {"", "  "}

SearchInit ==
    /\ manager = "ready"
    /\ news = 1
    /\ preferences \in
           {[UserPreferencesDefault EXCEPT !.api_urls = c] :
               c \in {ApiUrlConfigDefault,
                      [urls |-> <<>>, active_index |-> 0],
                      [urls |-> <<Mirror1, Typo>>, active_index |-> 0],
                      [urls |-> <<Mirror1, Typo>>, active_index |-> 1],
                      [urls |-> <<Mirror1, Typo>>, active_index |-> 2]}}
    /\ lock = NoThread
    /\ file = FileOf(Serialize(preferences))
    /\ th = [t \in Threads |-> Idle]
    /\ ioFailed = FALSE
    /\ net = NetIdle
    /\ community = CommunityIdle
    /\ hotkeys = HotkeysIdle
    /\ search = SearchIdle
    /\ conv = ConvIdle

\* The command search_memes(keyword) and MemeServerClient::search_memes up to
\* request_builder.send().await: an empty result for a blank keyword; else the
\* active url of the store, or the client's own where get_active_api_url
\* found the lock busy; then Url::parse(..).unwrap().
search_memes(keyword) ==
    /\ search.pc = "idle"
    /\ search.res = NoResult
    /\ IF IsBlank(keyword)
       THEN search' = [search EXCEPT !.res = Ok(<<>>)]
       ELSE LET api_url == IF TryLockOk THEN ActiveApiUrl(preferences.api_urls)
                           ELSE ClientApiUrl
            IN  IF UrlParse(api_url) = None
                THEN search' = [search EXCEPT !.pc = "panicked", !.url = api_url,
                                              !.cause = "malformed url"]
                ELSE search' = [search EXCEPT !.pc = "await", !.url = api_url]
    /\ UNCHANGED <<manager, news, preferences, lock, file, th, ioFailed, net, conv, community, hotkeys>>

\* MemeServerClient::search_memes from the answer of send() on: `?` on the
\* request and on text(), then serde_json::from_str(..).unwrap().
response(outcome, body) ==
    /\ search.pc = "await"
    /\ search' =
           IF outcome = "send" THEN
               [search EXCEPT !.pc = "idle", !.res = Err("error sending request")]
           ELSE IF outcome = "body" THEN
               [search EXCEPT !.pc = "idle", !.res = Err("error decoding response body")]
           ELSE IF ParseSearchResponse(body) = None THEN
               [search EXCEPT !.pc = "panicked",
                              !.cause = "malformed JSON in a network response"]
           ELSE [search EXCEPT !.pc = "idle",
                               !.res = Ok(MemeItems(ParseSearchResponse(body)[1]))]
    /\ UNCHANGED <<manager, news, preferences, lock, file, th, ioFailed, net, conv, community, hotkeys>>

SearchNext ==
    \/ \E keyword \in Keywords : search_memes(keyword)
    \/ \E outcome \in SearchOutcomes, body \in SearchBodies : response(outcome, body)
    \/ \E t \in Threads, i \in IndexInputs : set_active_api_url(t, i)
    \/ \E t \in Threads : file_create(t)
    \/ \E t \in Threads : write_all(t)
    \/ \E t \in Threads : Return(t)

SearchSpec == SearchInit /\ [][SearchNext]_vars

\* ------------------------------------- remove_api_url, statement by statement
\* The stores a remove_api_url finds: the active endpoint is the last one, so
\* that the removal leaves active_index out of range until it is reset.
IsolationInit ==
    /\ manager = "ready"
    /\ news = 1
    /\ preferences \in
           {[UserPreferencesDefault EXCEPT !.api_urls = c] :
               c \in {[urls |-> default_api_urls \o <<Mirror1>>, active_index |-> 1],
                      [urls |-> default_api_urls \o <<Mirror1, Mirror2>>, active_index |-> 2],
                      [urls |-> default_api_urls \o <<Mirror1, Mirror2>>, active_index |-> 0]}}
    /\ lock = NoThread
    /\ file = FileOf(Serialize(preferences))
    /\ th = [t \in Threads |-> Idle]
    /\ ioFailed = FALSE
    /\ net = NetIdle
    /\ community = CommunityIdle
    /\ hotkeys = HotkeysIdle
    /\ search = SearchIdle
    /\ conv = ConvIdle

\* A remove_api_url that works on the preferences without holding the mutex.
remove_api_url_unguarded(t, index) ==
    /\ Callable(t)
    /\ IF index < Len(preferences.api_urls.urls)
       THEN /\ th' = [th EXCEPT ![t] =
                   [Invoke(@) EXCEPT !.pc = "remove", !.op = "remove_api_url",
                                     !.arg = <<index>>, !.pre = <<preferences>>,
                                     !.res = NoResult]]
            /\ UNCHANGED <<preferences, lock, file, ioFailed>>
       ELSE /\ th' = [th EXCEPT ![t] =
                          Returned(Invoke(@), "remove_api_url", index, ErrIndex)]
            /\ UNCHANGED <<preferences, lock, file, ioFailed>>
    /\ UNCHANGED <<manager, news, net, conv, community, hotkeys, search>>

\* remove_api_url(index) up to its range check: try_lock, then the guard is
\* held, or an error returns.
remove_api_url_guard(t, index) ==
    /\ Callable(t)
    /\ \/ /\ TryLockOk
          /\ IF index < Len(preferences.api_urls.urls)
             THEN /\ lock' = t
                  /\ th' = [th EXCEPT ![t] =
                         [Invoke(@) EXCEPT !.pc = "remove", !.op = "remove_api_url",
                                           !.arg = <<index>>, !.pre = <<preferences>>,
                                           !.res = NoResult]]
                  /\ UNCHANGED <<preferences, file, ioFailed>>
             ELSE /\ th' = [th EXCEPT ![t] =
                                Returned(Invoke(@), "remove_api_url", index, ErrIndex)]
                  /\ UNCHANGED <<preferences, lock, file, ioFailed>>
       \/ LockFailure(t, "remove_api_url", index)
    /\ UNCHANGED <<manager, news, net, conv, community, hotkeys, search>>

\* guard.api_urls.urls.remove(index);
urls_remove(t) ==
    /\ th[t].pc = "remove"
    /\ preferences' = [preferences EXCEPT
                          !.api_urls.urls = VecRemove(@, th[t].arg[1])]
    /\ th' = [th EXCEPT ![t].pc = "adjust"]
    /\ UNCHANGED <<manager, news, lock, file, ioFailed, net, conv, community, hotkeys, search>>

\* if guard.api_urls.active_index >= guard.api_urls.urls.len() { .. = 0 },
\* then on to save_preferences_locked(&guard.clone()).
reset_active_index(t) ==
    /\ th[t].pc = "adjust"
    /\ LET p == IF preferences.api_urls.active_index >= Len(preferences.api_urls.urls)
                THEN [preferences EXCEPT !.api_urls.active_index = 0]
                ELSE preferences
       IN  /\ preferences' = p
           /\ th' = [th EXCEPT ![t] =
                  Saving(th[t], "remove_api_url", th[t].arg[1], th[t].pre[1], p)]
    /\ UNCHANGED <<manager, news, lock, file, ioFailed, net, conv, community, hotkeys, search>>

IsolationNext ==
    \/ \E t \in Threads, i \in IndexInputs : remove_api_url_guard(t, i)
    \/ \E t \in Threads : urls_remove(t)
    \/ \E t \in Threads : reset_active_index(t)
    \/ \E t \in Threads : file_create(t)
    \/ \E t \in Threads : write_all(t)
    \/ \E t \in Threads : Return(t)
    \/ \E t \in Threads : get_preferences(t)
    \/ \E t \in Threads : get_active_api_url(t)
    \/ \E t \in Threads : get_api_url_config(t)
    \/ \E t \in Threads : get_shortcuts(t)
    \/ \E t \in Threads : get_toggle_app_shortcut(t)
    \/ \E t \in Threads : lock_acquired(t)

IsolationSpec == IsolationInit /\ [][IsolationNext]_vars

\* ------------------------------------------- the defaults of a first load
\* What preferences.json may leave unsaid: everything (no file, an empty
\* file, the object {}), the toggle_app of its shortcuts object, nothing.
DefaultsFiles ==
    {AbsentFile,
     [exists |-> TRUE, data |-> <<>>],
     FileOf(EmptyDoc),
     FileOf([EmptyDoc EXCEPT !.shortcuts = Some([toggle_app |-> None])]),
     FileOf([EmptyDoc EXCEPT !.copy_to_clipboard = Some(FALSE),
                             !.shortcuts = Some([toggle_app |-> None])]),
     FileOf(Serialize([UserPreferencesDefault EXCEPT
                          !.shortcuts = [toggle_app |-> UserShortcut]]))}

DefaultsInit ==
    /\ manager = "uninit"
    /\ news = 0
    /\ preferences = UserPreferencesDefault
    /\ lock = NoThread
    /\ file \in DefaultsFiles
    /\ th = [t \in Threads |-> Idle]
    /\ ioFailed = FALSE
    /\ net = NetIdle
    /\ community = CommunityIdle
    /\ hotkeys = HotkeysIdle
    /\ search = SearchIdle
    /\ conv = ConvIdle

\* The construction and the reads of the binding it left.
DefaultsNext ==
    \/ \E t \in Threads : get_config_manager(t)
    \/ \E t \in Threads : New(t)
    \/ \E t \in Threads : once_wait(t)
    \/ \E t \in Threads : get_preferences(t)
    \/ \E t \in Threads : get_shortcuts(t)
    \/ \E t \in Threads : get_toggle_app_shortcut(t)

DefaultsSpec == DefaultsInit /\ [][DefaultsNext]_vars

\* ------------------------------------------------- the enabled libraries
\* The uuids of the libraries a user enables and disables.
Uuids == {"lib-a", "lib-b"}

\* serde_json::to_string_pretty(&EnabledMemeLibs { enabled_libs })
LibsDoc(enabled_libs) == [enabled_libs |-> enabled_libs]

\* serde_json::from_str::<EnabledMemeLibs>: the set of a whole text, or, for
\* a text that does not parse, EnabledMemeLibs::default(), the empty set.
LibsOf(f) == IF Parses(f.data) THEN f.data[1].doc.enabled_libs ELSE {}

\* What enabled_meme_libs.json may hold when the calls start.
LibsFiles ==
    {AbsentFile, FileOf(LibsDoc({})), FileOf(LibsDoc({"lib-b"})),
     FileOf(LibsDoc(Uuids))}

LibsOps == {"enable_meme_lib", "disable_meme_lib"}

\* Each thread makes the calls of one command invocation at a time.
LibsInit ==
    /\ manager = "uninit"
    /\ news = 0
    /\ preferences = UserPreferencesDefault
    /\ lock = NoThread
    /\ file = AbsentFile
    /\ th = [t \in Threads |-> Idle]
    /\ ioFailed = FALSE
    /\ net = NetIdle
    /\ \E f \in LibsFiles : community = [CommunityIdle EXCEPT !.libs = f]
    /\ hotkeys = HotkeysIdle
    /\ search = SearchIdle
    /\ conv = ConvIdle

\* The set enable_meme_lib or disable_meme_lib saves, given the one it loaded.
Changed(op, uuid, enabled_libs) ==
    IF op = "enable_meme_lib" THEN enabled_libs \cup {uuid}
    ELSE enabled_libs \ {uuid}

\* enable_meme_lib(uuid) / disable_meme_lib(uuid) up to the first fs::write:
\* load_enabled_meme_libs() finds the directory (or fails), then finds no
\* file and goes on to save the default, or reads and parses the file (a
\* failed read returns the error), after which the set is changed in the
\* caller's own copy and save_enabled_meme_libs begins.
meme_lib_call(t, op, uuid, dirOk, readOk) ==
    /\ th[t].pc = "idle"
    /\ th[t].n < MaxCalls
    /\ IF ~dirOk
       THEN th' = [th EXCEPT ![t] = Returned(Invoke(@), op, uuid,
                                             Err("cannot create config directory"))]
       ELSE IF ~community.libs.exists
       THEN th' = [th EXCEPT ![t] =
                [Invoke(@) EXCEPT !.pc = "default_create", !.op = op,
                                  !.arg = <<uuid>>, !.pre = <<{}>>,
                                  !.res = NoResult]]
       ELSE IF ~readOk
       THEN th' = [th EXCEPT ![t] = Returned(Invoke(@), op, uuid,
                                             Err("cannot read config"))]
       ELSE th' = [th EXCEPT ![t] =
                [Invoke(@) EXCEPT !.pc = "save_create", !.op = op,
                                  !.arg = <<uuid>>,
                                  !.pre = <<Changed(op, uuid, LibsOf(community.libs))>>,
                                  !.res = NoResult]]
    /\ UNCHANGED <<manager, news, preferences, lock, file, ioFailed, net, conv, community, hotkeys, search>>

enable_meme_lib(t, uuid, dirOk, readOk) ==
    meme_lib_call(t, "enable_meme_lib", uuid, dirOk, readOk)

disable_meme_lib(t, uuid, dirOk, readOk) ==
    meme_lib_call(t, "disable_meme_lib", uuid, dirOk, readOk)

\* fs::write, first half: the file is created or truncated, or the call
\* returns the error.
libs_create(t, ok) ==
    /\ th[t].pc \in {"default_create", "save_create"}
    /\ IF ok
       THEN /\ community' = [community EXCEPT !.libs = [exists |-> TRUE, data |-> <<>>]]
            /\ th' = [th EXCEPT ![t].pc = IF th[t].pc = "default_create"
                                          THEN "default_write" ELSE "save_write"]
       ELSE /\ th' = [th EXCEPT ![t].pc = "idle", ![t].pre = <<>>,
                                ![t].res = Err("cannot save config")]
            /\ UNCHANGED community
    /\ UNCHANGED <<manager, news, preferences, lock, file, ioFailed, net, conv, hotkeys, search>>

\* fs::write, second half: k of the NChunks write() calls succeed.  After
\* the default is saved the caller changes its copy of it and saves again;
\* after the changed set is saved the call returns Ok(()).
libs_write(t, k) ==
    /\ th[t].pc \in {"default_write", "save_write"}
    /\ LET content == IF th[t].pc = "default_write" THEN LibsDoc({})
                      ELSE LibsDoc(th[t].pre[1])
       IN  community' = [community EXCEPT !.libs = Written(Bytes(content), k)]
    /\ IF k < NChunks
       THEN th' = [th EXCEPT ![t].pc = "idle", ![t].pre = <<>>,
                             ![t].res = Err("cannot save config")]
       ELSE IF th[t].pc = "default_write"
       THEN th' = [th EXCEPT ![t].pc = "save_create",
                             ![t].pre = <<Changed(th[t].op, th[t].arg[1], {})>>]
       ELSE th' = [th EXCEPT ![t].pc = "idle", ![t].pre = <<>>, ![t].res = OkUnit]
    /\ UNCHANGED <<manager, news, preferences, lock, file, ioFailed, net, conv, hotkeys, search>>

LibsNext ==
    \/ \E t \in Threads, uuid \in Uuids, dirOk \in BOOLEAN, readOk \in BOOLEAN :
           enable_meme_lib(t, uuid, dirOk, readOk)
    \/ \E t \in Threads, uuid \in Uuids, dirOk \in BOOLEAN, readOk \in BOOLEAN :
           disable_meme_lib(t, uuid, dirOk, readOk)
    \/ \E t \in Threads, ok \in BOOLEAN : libs_create(t, ok)
    \/ \E t \in Threads, k \in 0..NChunks : libs_write(t, k)

LibsSpec == LibsInit /\ [][LibsNext]_vars

\* ------------------------------------------------- the shortcut handler
ShortcutStates == {"Pressed", "Released"}

\* get_webview_window("main") is None, is_visible() is Err, hide() or show()
\* is Err, or all of them succeed.
WindowOutcomes == {"no window", "is_visible failed", "hide or show failed", "ok"}

\* A handler that toggles the window on every press of a registered shortcut.
handler_any_registered(shortcut, state, window) ==
    /\ shortcut \in hotkeys.registered
    /\ (state = "Pressed" /\ manager = "ready") => lock = NoThread
    /\ LET ok == window = "ok"
           toggles == state = "Pressed" /\ manager = "ready" /\ ok
       IN  hotkeys' = [hotkeys EXCEPT
               !.visible = IF toggles THEN ~@ ELSE @,
               !.event = [shortcut |-> shortcut, state |-> state, ok |-> ok,
                          toggled |-> toggles]]
    /\ UNCHANGED <<manager, news, preferences, lock, file, th, ioFailed, net, conv, community, search>>

\* The with_handler closure, run for an event of a registered shortcut.  On
\* Pressed, with the manager set, get_toggle_app_shortcut() waits for the
\* lock and reads the binding; if the event's shortcut equals the binding's,
\* the main window is hidden when visible and shown when not.  window:
\* what the window calls do, see WindowOutcomes; a failure is logged and the
\* window stays.
handler(shortcut, state, window) ==
    /\ shortcut \in hotkeys.registered
    /\ (state = "Pressed" /\ manager = "ready") => lock = NoThread
    /\ LET ok == window = "ok"
           toggles == /\ state = "Pressed" /\ manager = "ready"
                      /\ shortcut = toggle_shortcut
                      /\ ok
       IN  hotkeys' = [hotkeys EXCEPT
               !.visible = IF toggles THEN ~@ ELSE @,
               !.event = [shortcut |-> shortcut, state |-> state, ok |-> ok,
                          toggled |-> toggles]]
    /\ UNCHANGED <<manager, news, preferences, lock, file, th, ioFailed, net, conv, community, search>>

\* The application once setup has run, its window shown or hidden, until
\* refresh_shortcuts is next called.
PressInit ==
    /\ manager = "ready"
    /\ news = 1
    /\ preferences \in {[UserPreferencesDefault EXCEPT !.shortcuts = s] :
                           s \in HotkeyBindings}
    /\ lock = NoThread
    /\ file = FileOf(Serialize(preferences))
    /\ th = [t \in Threads |-> Idle]
    /\ ioFailed = FALSE
    /\ net = NetIdle
    /\ community = CommunityIdle
    /\ \E r \in {{}, {toggle_shortcut}}, v \in BOOLEAN :
           hotkeys = [HotkeysIdle EXCEPT !.registered = r, !.visible = v]
    /\ search = SearchIdle
    /\ conv = ConvIdle

PressNext ==
    \/ \E shortcut \in HotkeyShortcuts, state \in ShortcutStates,
          window \in WindowOutcomes :
           handler(shortcut, state, window)
    \/ \E t \in Threads, s \in HotkeyBindings : set_shortcuts(t, s)
    \/ \E t \in Threads : lock_acquired(t)
    \/ \E t \in Threads : file_create(t)
    \/ \E t \in Threads : write_all(t)
    \/ \E t \in Threads : Return(t)

PressSpec == PressInit /\ [][PressNext]_vars

\* ----------------------------------------------------------------- claims
\* The operations that change the preferences, and those that use try_lock.
WriteOps ==
    {"update_preferences", "update_clipboard_setting", "update_shortcuts",
     "update_api_url_config", "set_active_api_url", "add_api_url", "remove_api_url"}
TryLockOps ==
    {"get_preferences", "update_preferences", "update_clipboard_setting",
     "get_active_api_url", "get_api_url_config", "update_api_url_config",
     "set_active_api_url", "add_api_url", "remove_api_url"}

\* In this step thread t invokes op.
Calls(t, op) == th'[t].n = th[t].n + 1 /\ th'[t].op = op
\* Thread t's last call was a write operation that returned Ok(()).
Wrote(t) == th[t].op \in WriteOps /\ th[t].res = OkUnit
\* Thread t is at the return of op, its guard not yet dropped.
AtReturn(t, op) == th[t].op = op /\ th[t].pc = "unlock"

\* C1: whenever the manager exists, nobody holds the lock and no file write
\* has failed, preferences.json is the serialization of the in-memory value.
C1_FileEqualsMemory ==
    (manager = "ready" /\ lock = NoThread /\ ~ioFailed)
        => file = FileOf(Serialize(preferences))

\* C2: update_preferences(new_prefs) that took the free lock, the file being
\* writable, returns Ok with new_prefs in memory and in the file.
C2_UpdatePreferencesPersists ==
    \A t \in Threads :
        (AtReturn(t, "update_preferences") /\ ~ioFailed)
            => /\ th[t].res = OkUnit
               /\ preferences = th[t].arg[1]
               /\ file = FileOf(Serialize(th[t].arg[1]))

\* C3: file writes never interleave.  No write having failed, a write
\* operation that is about to return Ok(()) leaves in the file exactly the
\* bytes it wrote, the serialization of the preferences it produced; and once
\* two write operations, one per thread, have both returned and one of them
\* wrote, the file is exactly the document one of them wrote: no mixture of
\* the two and no cut-off document.
C3_WritesNeverInterleave ==
    ~ioFailed =>
        /\ \A t \in Threads :
              (th[t].pc = "unlock" /\ Wrote(t))
                  => /\ file = [exists |-> TRUE, data |-> th[t].buf]
                     /\ th[t].buf = Bytes(Serialize(preferences))
        /\ (/\ \A t \in Threads :
                  th[t].pc = "idle" /\ th[t].n = 1 /\ th[t].op \in WriteOps
            /\ \E t \in Threads : Wrote(t))
              => \E t \in Threads :
                    /\ Wrote(t)
                    /\ file = [exists |-> TRUE, data |-> th[t].buf]
                    /\ Parses(file.data)

\* C3 witness: two write operations overlapped (one found the lock held), both
\* have returned, and the file is the document of the one that wrote.
C3_Witness ==
    \E t \in Threads, u \in Threads :
        /\ t # u /\ ~ioFailed
        /\ th[t].pc = "idle" /\ th[t].n = 1 /\ Wrote(t)
        /\ th[u].pc = "idle" /\ th[u].n = 1 /\ th[u].res = ErrLock
        /\ th[u].op \in WriteOps \ {"update_preferences"}
        /\ file = [exists |-> TRUE, data |-> th[t].buf]

\* C4: whenever the stored endpoint list is non-empty, the stored
\* active_index is less than its length.
C4_ActiveIndexInRange ==
    manager = "ready" =>
        (preferences.api_urls.urls # <<>>
            => preferences.api_urls.active_index < Len(preferences.api_urls.urls))

\* C5: a successful remove_api_url(index) with index = active_index, the
\* active_index being valid, leaves active_index = 0.
C5_RemoveActiveResetsIndex ==
    \A t \in Threads :
        (/\ AtReturn(t, "remove_api_url") /\ th[t].res = OkUnit
         /\ th[t].pre[1].api_urls.active_index < Len(th[t].pre[1].api_urls.urls)
         /\ th[t].arg[1] = th[t].pre[1].api_urls.active_index)
            => preferences.api_urls.active_index = 0

\* C6: set_active_api_url(i) with the lock free.  For i >= len(urls) it returns
\* the validation error in the same step, and preferences, file and lock are
\* unchanged.  For i < len(urls) it stores i in active_index and nothing else,
\* holds the value until it returns, and returns Ok(()) with the file equal to
\* the serialization of that value unless a file operation failed.
C6_SetActiveApiUrl ==
    [][\A t \in Threads :
        /\ (Calls(t, "set_active_api_url") /\ lock = NoThread) =>
              IF th'[t].arg[1] >= Len(preferences.api_urls.urls)
              THEN /\ th'[t].res = ErrIndex /\ th'[t].pc = "idle"
                   /\ UNCHANGED <<preferences, file, lock, ioFailed>>
              ELSE /\ preferences' = [preferences EXCEPT
                                        !.api_urls.active_index = th'[t].arg[1]]
                   /\ th'[t].pc = "create" /\ lock' = t
        /\ (th[t].op = "set_active_api_url" /\ lock = t) =>
              /\ preferences' = preferences
              /\ (th'[t].pc = "unlock" /\ th'[t].res # ErrIo) =>
                    /\ th'[t].res = OkUnit
                    /\ file' = FileOf(Serialize(preferences))
      ]_vars

\* C6 witness: one set_active_api_url was rejected, another is returning
\* Ok(()) having changed active_index.
C6_Witness ==
    \E t \in Threads, u \in Threads :
        /\ th[t].op = "set_active_api_url" /\ th[t].res = ErrIndex
        /\ AtReturn(u, "set_active_api_url") /\ th[u].res = OkUnit
        /\ th[u].pre[1].api_urls.active_index # th[u].arg[1]
        /\ preferences.api_urls.active_index = th[u].arg[1]

\* C7: remove_api_url(index) that takes the lock with index >= len(urls)
\* returns the validation error in the same step: the list, active_index and
\* the file are unchanged and the call never reaches a file operation.
C7_RemoveOutOfRange ==
    [][\A t \in Threads :
        (/\ Calls(t, "remove_api_url") /\ lock = NoThread
         /\ th'[t].arg[1] >= Len(preferences.api_urls.urls))
            => /\ th'[t].res = ErrIndex /\ th'[t].pc = "idle"
               /\ UNCHANGED <<preferences, file, lock, ioFailed>>
      ]_vars

\* C7 witness: remove_api_url was rejected on an empty list.
C7_Witness ==
    \E t \in Threads :
        /\ th[t].op = "remove_api_url" /\ th[t].res = ErrIndex
        /\ th[t].pc = "idle"
        /\ preferences.api_urls.urls = <<>>

\* C8: get_active_api_url that takes the lock on an empty endpoint list
\* returns Ok with the fixed fallback URL.
C8_EmptyListFallback ==
    [][\A t \in Threads :
        (/\ Calls(t, "get_active_api_url") /\ lock = NoThread
         /\ preferences.api_urls.urls = <<>>)
            => th'[t].res = Ok("https://mememeow.morami.icu")
      ]_vars

\* C8 witness: the fallback URL was returned for an empty list.
C8_Witness ==
    \E t \in Threads :
        /\ th[t].op = "get_active_api_url" /\ th[t].res.kind = "Ok"
        /\ th[t].pc = "idle"
        /\ preferences.api_urls.urls = <<>>

\* C9: get_active_api_url changes neither the preferences nor the file; when
\* it takes the lock on a non-empty list with active_index out of range it
\* returns the URL at index 0, the stored active_index staying as it was.
C9_GetActiveIsPure ==
    [][\A t \in Threads :
        Calls(t, "get_active_api_url") =>
            /\ UNCHANGED <<preferences, file>>
            /\ (/\ lock = NoThread
                /\ preferences.api_urls.urls # <<>>
                /\ preferences.api_urls.active_index >= Len(preferences.api_urls.urls))
                  => th'[t].res = Ok(preferences.api_urls.urls[1].url)
      ]_vars

\* C9 witness: the URL at index 0 was returned and the stored index is still
\* out of range.
C9_Witness ==
    \E t \in Threads :
        /\ th[t].op = "get_active_api_url" /\ th[t].pc = "idle"
        /\ preferences.api_urls.urls # <<>>
        /\ preferences.api_urls.active_index >= Len(preferences.api_urls.urls)
        /\ th[t].res = Ok(preferences.api_urls.urls[1].url)

\* C10: an operation that uses try_lock, invoked while a thread holds the
\* lock, returns the lock error in the same step (it neither waits nor
\* retries); the error differs from the validation error in kind and message;
\* preferences, file and lock are unchanged.
C10_BusyLockFailsAtOnce ==
    [][\A t \in Threads, op \in TryLockOps :
        (Calls(t, op) /\ lock # NoThread)
            => /\ th'[t].res = ErrLock /\ th'[t].pc = "idle"
               /\ th'[t].res.kind # ErrIndex.kind /\ th'[t].res.msg # ErrIndex.msg
               /\ UNCHANGED <<preferences, file, lock, ioFailed>>
      ]_vars

\* C10 witness: a try_lock operation has returned the lock error while the
\* other thread is inside its write.
C10_Witness ==
    \E t \in Threads, u \in Threads :
        /\ th[t].op \in TryLockOps \ {"update_preferences"}
        /\ th[t].pc = "idle" /\ th[t].res = ErrLock
        /\ lock = u /\ th[u].pc = "write"

\* C11: a write operation whose File::create or write fails returns the
\* error with the mutation still in memory; invoked again with the same
\* argument, the lock free, it goes on to persist instead of returning an
\* error, and a write operation that then reaches its return without a file
\* failure returns Ok(()) with the file equal to the in-memory value.
C11_RetryPersists ==
    [][\A t \in Threads :
        /\ (th[t].pc \in {"create", "write"} /\ th'[t].res = ErrIo)
              => /\ preferences' = preferences
                 /\ preferences = Deserialize(th[t].buf[1].doc)
        /\ (/\ th[t].pc = "idle" /\ th[t].res = ErrIo /\ lock = NoThread
            /\ Calls(t, th[t].op) /\ th'[t].arg = th[t].arg)
              => th'[t].pc = "create"
        /\ (th[t].pc \in {"create", "write"} /\ th'[t].pc = "unlock"
            /\ th'[t].res # ErrIo)
              => /\ th'[t].res = OkUnit
                 /\ file' = FileOf(Serialize(preferences'))
      ]_vars

\* C12: construction over an absent or unparseable preferences.json, no file
\* operation failing, leaves the default in memory and the serialized default
\* in the file.
C12_ConstructionRewritesFile ==
    [][(/\ manager # "ready" /\ manager' = "ready" /\ ~ioFailed'
        /\ (~file.exists \/ ~Parses(file.data)))
          => /\ preferences' = UserPreferencesDefault
             /\ file' = FileOf(Serialize(UserPreferencesDefault))
      ]_vars

\* C13: a ConfigManager::new that got as far as loading preferences.json
\* returns a store whatever the load did: when the file does not parse or a
\* create or write of the load failed, the store holds the default
\* preferences, and otherwise the default or the value the file parses to.
C13_LoadFailureNotFatal ==
    [][\A t \in Threads :
        (th[t].pc = "new" /\ th'[t] # th[t] /\ (file.exists \/ ioFailed'))
            => /\ manager' = "ready" /\ th'[t].pc = "idle"
               /\ news' = news + 1
               /\ IF file.exists /\ Parses(file.data) /\ ~ioFailed'
                  THEN preferences' \in {UserPreferencesDefault,
                                         Deserialize(file.data[1].doc)}
                  ELSE preferences' = UserPreferencesDefault
      ]_vars

\* C13 witness: construction has returned over a file that does not parse,
\* and another has returned after a failed write of the default file.
C13_Witness ==
    /\ manager = "ready" /\ news = 1
    /\ preferences = UserPreferencesDefault
    /\ \/ file.exists /\ ~Parses(file.data) /\ ~ioFailed
       \/ ioFailed /\ \A t \in Threads : th[t].n = 0

\* C14: ConfigManager::new returns a value at most once, whichever threads
\* call get_config_manager first and however they interleave; a thread is
\* inside a store operation, or has returned from one, only when that one
\* value is set.
C14_SingleInstance ==
    /\ news <= 1
    /\ (news = 1) = (manager = "ready")
    /\ \A t \in Threads :
          th[t].n > 0 => manager = "ready" /\ news = 1

\* C14 witness: a thread called get_config_manager while the other was in the
\* closure, and both have since made a call on the one store.
C14_Witness ==
    /\ news = 1 /\ manager = "ready"
    /\ \E t \in Threads : th[t].pc = "once_wait"
    /\ \E t \in Threads : th[t].n > 0

\* ---------------------------------------- claims about the fetcher
RECURSIVE Pow2(_)
Pow2(n) == IF n = 0 THEN 1 ELSE 2 * Pow2(n - 1)
\* The k-th attempt of a call, counted from 1, in (tier, position) order: the
\* tier it belongs to and the candidate it is made on.
TierOf(k) == (k - 1) \div Len(net.urls)
IndexOf(k) == (k - 1) % Len(net.urls)
\* The attempts logged so far are made in (tier, position) order, each on
\* the candidate of its position with the timeout of its tier.
InOrder ==
    \A k \in 1..Len(net.log) :
        /\ net.log[k].i = IndexOf(k)
        /\ net.log[k].url = net.urls[IndexOf(k) + 1]
        /\ net.log[k].timeout = initial_timeout * Pow2(TierOf(k))
\* The number of passes over the candidate list the call has made.
Passes == Cardinality({net.log[k].timeout : k \in 1..Len(net.log)})
\* floor(log2(c / f)) and ceil(log2(c / f)) for 0 < f <= c.
RECURSIVE FloorLog2(_, _)
FloorLog2(c, f) == IF 2 * f > c THEN 0 ELSE 1 + FloorLog2(c, 2 * f)
RECURSIVE CeilLog2(_, _)
CeilLog2(c, f) == IF f >= c THEN 0 ELSE 1 + CeilLog2(c, 2 * f)

\* C15: a success is the last attempt the call makes and its body is what
\* the call returns: every attempt before it, in (tier, position) order,
\* failed and none follows it.  With two candidates, the first timing out
\* and the second succeeding, the call returns the second's body after
\* exactly two attempts, both with the first tier's timeout.
C15_FirstSuccessReturned ==
    /\ \A k \in 1..Len(net.log) :
          net.log[k].res.kind = "Ok"
              => /\ k = Len(net.log) /\ net.pc = "done" /\ net.inflight = {}
                 /\ net.res = Ok(Body(net.urls[IndexOf(k) + 1]))
                 /\ net.res = net.log[k].res
                 /\ \A j \in 1..(k - 1) : net.log[j].res.kind = "Err"
    /\ (net.pc = "done" /\ net.res.kind = "Ok")
          => /\ net.log # <<>> /\ net.log[Len(net.log)].res.kind = "Ok"
             /\ InOrder
    /\ (/\ Len(net.urls) = 2 /\ Len(net.log) >= 2
        /\ net.log[1].res = download_single_url(net.urls[1], "timeout")
        /\ net.log[2].res.kind = "Ok")
          => /\ Len(net.log) = 2 /\ net.pc = "done"
             /\ net.res = Ok(Body(net.urls[2]))
             /\ net.log[1].timeout = initial_timeout
             /\ net.log[2].timeout = initial_timeout

\* C15 witness: candidates [A, B], A timed out, B answered, B's body returned.
C15_Witness ==
    /\ net.pc = "done" /\ Len(net.urls) = 2 /\ net.urls[1] # net.urls[2]
    /\ Len(net.log) = 2
    /\ net.log[1].res = download_single_url(net.urls[1], "timeout")
    /\ net.res = Ok(Body(net.urls[2]))

\* C16 as claimed: a call that exhausted every tier made exactly
\* ceil(log2(max_timeout / initial_timeout)) + 1 full passes over the list.
C16_CeilTiers ==
    (net.pc = "done" /\ net.res = ErrExhausted)
        => /\ Passes = CeilLog2(max_timeout, initial_timeout) + 1
           /\ Len(net.log) = Passes * Len(net.urls)

\* C16 amended: a call that exhausted every tier made exactly
\* floor(log2(max_timeout / initial_timeout)) + 1 full passes over the list,
\* with the timeouts initial_timeout * 2^k that do not exceed max_timeout.
C16_FloorTiers ==
    (net.pc = "done" /\ net.res = ErrExhausted)
        => /\ Passes = FloorLog2(max_timeout, initial_timeout) + 1
           /\ Len(net.log) = Passes * Len(net.urls)
           /\ \A k \in 1..Len(net.log) :
                 /\ net.log[k].res.kind = "Err"
                 /\ net.log[k].timeout <= max_timeout
                 /\ net.log[k].timeout = initial_timeout * Pow2(TierOf(k))
           /\ net.timeout > max_timeout

\* C16 witness: every attempt on two candidates failed and the call has
\* returned the final error.
C16_Witness ==
    /\ net.pc = "done" /\ net.res = ErrExhausted
    /\ Len(net.urls) = 2 /\ Len(net.log) > Len(net.urls)

\* C17: at most one request is in flight; within a tier the candidates are
\* tried once each in the caller's order; an attempt that fails, whatever
\* the failure, does not end the call: the for loop goes on to the next
\* index, where the next candidate is tried or the next tier begins.
C17_SequentialInOrder ==
    [][/\ Cardinality(net'.inflight) <= 1
       /\ InOrder'
       /\ (/\ net.pc = "await" /\ Len(net'.log) = Len(net.log) + 1
           /\ net'.log[Len(net'.log)].res.kind = "Err")
             => /\ net'.pc = "send" /\ net'.i = net.i + 1
                /\ net'.res = net.res /\ net'.timeout = net.timeout
       /\ (net.pc = "send" /\ net' # net)
             => IF net.i < Len(net.urls)
                THEN net'.pc = "await" /\ net'.inflight = {net.i}
                ELSE net'.pc = "tier" /\ net'.timeout > net.timeout
      ]_vars

\* C17 witness: a call went through both tiers on two candidates and met
\* every kind of failure.
C17_Witness ==
    /\ net.pc = "done" /\ Len(net.urls) = 2
    /\ {net.log[k].res : k \in 1..Len(net.log)} =
           {download_single_url(net.urls[1], o) : o \in Outcomes \ {"ok"}}

\* C18: a call that exhausted every tier returns one error, whose message
\* is the reason of the last failed attempt.
C18_LastReasonReturned ==
    (net.pc = "done" /\ net.timeout > max_timeout)
        => /\ net.res.kind = "Err"
           /\ net.res.msg = net.log[Len(net.log)].res.msg

\* ------------------------------------ claims about to_tauri_shortcut
\* The key names the claims list: the letters a-z, the digits 0-9, f1-f12.
Letters == {<<Lowercase[j]>> : j \in 1..Len(Lowercase)}
Digits == {<<"0">>, <<"1">>, <<"2">>, <<"3">>, <<"4">>, <<"5">>, <<"6">>, <<"7">>, <<"8">>, <<"9">>}
FunctionKeys ==
    {<<"f", "1">>, <<"f", "2">>, <<"f", "3">>, <<"f", "4">>,
     <<"f", "5">>, <<"f", "6">>, <<"f", "7">>, <<"f", "8">>,
     <<"f", "9">>, <<"f", "1", "0">>, <<"f", "1", "1">>, <<"f", "1", "2">>}
NamedKeys == Letters \cup Digits \cup FunctionKeys
\* The recognised tokens, and those of a modifier list, lower-cased.
Recognized == {ctrl, alt, shift, meta, super, command}
RecognizedIn(modifiers) ==
    {to_lowercase(modifiers[i]) : i \in 1..Len(modifiers)} \cap Recognized
\* The flag set the claim gives a set of recognised tokens.
FlagsOf(tokens) ==
    (IF ctrl \in tokens THEN {"CONTROL"} ELSE {})
    \cup (IF alt \in tokens THEN {"ALT"} ELSE {})
    \cup (IF shift \in tokens THEN {"SHIFT"} ELSE {})
    \cup (IF tokens \cap {meta, super, command} # {} THEN {"META"} ELSE {})

\* C19 as claimed: the 48 named keys have pairwise distinct codes and every
\* other key string has the code KeyV.
C19_OtherKeysDefault ==
    conv.out # <<>> =>
        /\ Cardinality(NamedKeys) = Len(KeyTable)
        /\ (/\ conv.a.key \in NamedKeys /\ conv.b.key \in NamedKeys
            /\ conv.a.key # conv.b.key) => conv.out[1][2] # conv.out[2][2]
        /\ conv.a.key \notin NamedKeys => conv.out[1][2] = "KeyV"
        /\ conv.b.key \notin NamedKeys => conv.out[2][2] = "KeyV"

\* C19 amended: the code is a function of the lower-cased key string alone.
\* Key strings whose lower-cased forms are two different named keys have
\* different codes, those with the same lower-cased form have the same code
\* whatever the modifiers, and a key string whose lower-cased form is no
\* named key has the code KeyV.
C19_KeyCodeOfLowercase ==
    conv.out # <<>> =>
        LET ka == to_lowercase(conv.a.key)
            kb == to_lowercase(conv.b.key)
        IN  /\ Cardinality(NamedKeys) = Len(KeyTable)
            /\ (ka \in NamedKeys /\ kb \in NamedKeys /\ ka # kb)
                   => conv.out[1][2] # conv.out[2][2]
            /\ ka = kb => conv.out[1][2] = conv.out[2][2]
            /\ ka \notin NamedKeys => conv.out[1][2] = "KeyV"
            /\ kb \notin NamedKeys => conv.out[2][2] = "KeyV"

\* C19 witness: an upper-case key with the code of its letter, beside a key
\* that has no arm and got KeyV.
C19_Witness ==
    /\ conv.out # <<>>
    /\ conv.a.key \notin NamedKeys /\ to_lowercase(conv.a.key) \in NamedKeys
    /\ conv.out[1][2] # "KeyV"
    /\ to_lowercase(conv.b.key) \notin NamedKeys /\ conv.out[2][2] = "KeyV"

\* C20: the Modifiers of a binding are the flags of the set of its
\* recognised tokens, lower-cased: meta, super and command give the one flag
\* META; and a list made from another by swapping, repeating, re-casing
\* tokens or adding unrecognised ones has the same set and the same
\* Modifiers.
C20_ModifiersOfTokenSet ==
    conv.out # <<>> =>
        /\ conv.out[1][1] = FlagsOf(RecognizedIn(conv.a.modifiers))
        /\ conv.out[2][1] = FlagsOf(RecognizedIn(conv.b.modifiers))
        /\ conv.a.key = conv.b.key =>
              /\ RecognizedIn(conv.a.modifiers) = RecognizedIn(conv.b.modifiers)
              /\ conv.out[1][1] = conv.out[2][1]
        /\ \A i \in 1..Len(conv.b.modifiers) :
              to_lowercase(conv.b.modifiers[i]) \in {meta, super, command}
                  => InsertModifiers(<<conv.b.modifiers[i]>>, 1, {}) = {"META"}

\* C20 witness: a list was edited twice, holds a re-cased token, and both
\* lists gave the single flag META.
C20_Witness ==
    /\ conv.out # <<>> /\ conv.edits >= 2
    /\ conv.a.modifiers # conv.b.modifiers
    /\ \E i \in 1..Len(conv.b.modifiers) :
          /\ conv.b.modifiers[i] \notin ModifierInputs
          /\ to_lowercase(conv.b.modifiers[i]) \in {super, command}
    /\ conv.out[1][1] = {"META"} /\ conv.out[2][1] = {"META"}

Cached ==
    /\ community.dir
    /\ community.cache.exists
    /\ Len(community.cache.data) = NChunks
    /\ \A i \in 1..NChunks :
           /\ community.cache.data[i].part = i
           /\ community.cache.data[i].doc = community.cache.data[1].doc
           /\ community.cache.data[i].doc.utf8
    /\ community.cache.data[1].doc.manifest # <<>>

\* C22: fetch_community_manifest is read-through.  A fetch that finds a cache
\* file holding a manifest returns that manifest, sends no request and leaves
\* the file alone; a fetch that finds the file absent, unreadable or
\* unparseable sends a request.  A download that returns a manifest leaves in
\* the cache what its write of that manifest's text left there (the whole
\* text when the write succeeded, after which the file is Cached), and a
\* download that returns an error has written nothing: a failed write of the
\* cache is never the reason for an error.
C22_ReadThrough ==
    [][/\ (community.pc = "idle" /\ community'.op = "fetch"
            /\ community'.n = community.n + 1) =>
               IF Cached
               THEN /\ community'.res =
                           Ok(community.cache.data[1].doc.manifest[1])
                    /\ community'.pc = "idle"
                    /\ community'.requests = community.requests
                    /\ community'.cache = community.cache
               ELSE /\ community'.pc = "await"
                    /\ community'.requests = community.requests + 1
                    /\ community'.cache = community.cache
       /\ (community.pc = "await" /\ community'.pc = "idle") =>
               /\ community'.requests = community.requests
               /\ community'.res.kind \in {"Ok", "Err"}
               /\ community'.res.kind = "Err" =>
                      community'.cache = community.cache
               /\ community'.res.kind = "Ok" =>
                      \/ community'.cache = community.cache
                      \/ \E k \in 0..NChunks :
                             community'.cache =
                                 Written(Bytes(TextOf(community'.res.val[1])), k)
      ]_vars

\* Two fetches, the first of which downloaded Manifest2 and cached it, the
\* second of which returned it from the cache: one request in all.
C22_Witness ==
    /\ community.n = 2
    /\ community.op = "fetch"
    /\ community.pc = "idle"
    /\ community.requests = 1
    /\ community.res = Ok(Manifest2)
    /\ community.cache = FileOf(TextOf(Manifest2))

\* A download returned a manifest although the write of the cache failed.
C22_WitnessWriteFailed ==
    /\ community.pc = "idle"
    /\ community.res = Ok(Manifest2)
    /\ community.requests = 1
    /\ community.cache # FileOf(TextOf(Manifest2))

\* ------------------------------------------- claims about refresh_shortcuts
\* C23: whenever refresh_shortcuts returns success, the registered shortcuts
\* are exactly the one derived from the toggle_app binding the store holds
\* (everything registered before was unregistered first).
C23_RefreshRegistersExactlyOne ==
    [][(hotkeys.pc = "lock" /\ hotkeys'.pc = "idle" /\ hotkeys'.res = OkUnit)
           => hotkeys'.registered = {toggle_shortcut}]_vars

\* The same for the refreshes whose unregister_all left nothing registered.
C23_AfterUnregistered ==
    [][(hotkeys.pc = "lock" /\ hotkeys'.pc = "idle" /\ hotkeys'.res = OkUnit
        /\ hotkeys.registered = {})
           => hotkeys'.registered = {toggle_shortcut}]_vars

\* ------------------------------------------------ claims about search_memes
\* The failure modes the specification calls expected.
ExpectedFailureModes ==
    {"missing preferences file", "malformed JSON in a file",
     "malformed JSON in a network response", "busy lock",
     "out-of-range index", "network failure"}

\* C24: no expected failure mode makes a command handler panic: a handler
\* that panicked did so for another cause.
C24_NoPanicOnExpectedFailure ==
    search.pc = "panicked" => search.cause \notin ExpectedFailureModes

\* ------------------------------------------------ claims about isolation
ReadOps ==
    {"get_preferences", "get_shortcuts", "get_toggle_app_shortcut",
     "get_active_api_url", "get_api_url_config"}

\* What the read op returns of the Preferences value p.
ViewOf(op, p) ==
    IF op = "get_preferences" THEN p
    ELSE IF op = "get_shortcuts" THEN p.shortcuts
    ELSE IF op = "get_toggle_app_shortcut"
         THEN to_tauri_shortcut(p.shortcuts.toggle_app)
    ELSE IF op = "get_active_api_url"
         THEN IF p.api_urls.urls = <<>> THEN DefaultUrl
              ELSE p.api_urls.urls[(IF p.api_urls.active_index < Len(p.api_urls.urls)
                                    THEN p.api_urls.active_index ELSE 0) + 1].url
    ELSE p.api_urls

\* Thread u is inside a write operation: between its first statement on the
\* Preferences and its return.
InWrite(u) == th[u].pc \in {"remove", "adjust", "save_preferences", "create",
                            "write", "unlock"}

\* C25: a read returns Ok only in a step taken while no write operation is
\* under way, and what it returns is its view of the Preferences of that
\* moment: the value left by the write operations completed so far, never
\* one between two statements of a write.
C25_ReadsSeeWholeWrites ==
    [][\A t \in Threads :
          (th'[t] # th[t] /\ th'[t].op \in ReadOps /\ th'[t].res.kind = "Ok"
           /\ th'[t].pc = "idle")
              => /\ \A u \in Threads : ~InWrite(u)
                 /\ th'[t].res = Ok(ViewOf(th'[t].op, preferences))]_vars

\* A remove_api_url of the active, last endpoint completed on one thread and
\* a read on another returned the list and the index it left.
C25_Witness ==
    \E t, u \in Threads :
        /\ th[u].op = "remove_api_url" /\ th[u].res = OkUnit /\ th[u].pc = "idle"
        /\ th[u].arg = <<1>>
        /\ th[t].op = "get_api_url_config"
        /\ th[t].res = Ok([urls |-> default_api_urls, active_index |-> 0])

C27_Terminates ==
    /\ (net.pc # "idle") ~> (net.pc = "done")
    /\ [](Len(net.log) <= (FloorLog2(max_timeout, initial_timeout) + 1) * Len(net.urls))

\* A call returned after as many attempts as tiers times candidates, the
\* last of them a success.
C27_Witness ==
    /\ net.pc = "done"
    /\ Len(net.urls) = MaxCandidates
    /\ Len(net.log) = 2 * MaxCandidates
    /\ net.res.kind = "Ok"

\* ------------------------------------------ claims about the calls that wait
LockOps == {"update_shortcuts", "get_shortcuts", "get_toggle_app_shortcut"}

\* C28: update_shortcuts, get_shortcuts and get_toggle_app_shortcut never
\* return the lock error; invoked while another thread holds the lock they
\* wait, and a waiting call takes the lock and returns once the holder has
\* released it.
C28_BlockingAcquires ==
    /\ [](\A t \in Threads : th[t].op \in LockOps => th[t].res # ErrLock)
    /\ [][\A t \in Threads, op \in LockOps :
             (Calls(t, op) /\ lock # NoThread)
                 => th'[t].pc = "blocked" /\ UNCHANGED <<preferences, file, lock>>]_vars
    /\ \A t \in Threads :
           (th[t].pc = "blocked") ~> (th[t].pc = "idle" /\ th[t].res # NoResult)

\* A shortcut operation waits while the other thread is inside its write.
C28_Witness ==
    \E t, u \in Threads :
        /\ th[t].pc = "blocked" /\ th[t].op \in LockOps
        /\ lock = u /\ th[u].pc = "write"

\* ------------------------------------- claims about removal and retries
\* C29: a remove_api_url(index) that returns Ok(()), where the list held a
\* valid active_index other than index, leaves the active endpoint as it
\* was: the url get_active_api_url resolves is the same before and after.
C29_RemoveOtherKeepsActive ==
    \A t \in Threads :
        (/\ AtReturn(t, "remove_api_url") /\ th[t].res = OkUnit
         /\ th[t].pre[1].api_urls.active_index < Len(th[t].pre[1].api_urls.urls)
         /\ th[t].arg[1] # th[t].pre[1].api_urls.active_index)
            => ActiveApiUrl(preferences.api_urls) = ActiveApiUrl(th[t].pre[1].api_urls)

\* The write operations the retry claim names.
RetryOps ==
    {"update_clipboard_setting", "update_shortcuts", "update_api_url_config",
     "set_active_api_url", "add_api_url", "remove_api_url"}

\* C30: the only call made so far was a write operation that returned the
\* error of its failed persist; the same thread invokes it again with the
\* same argument and goes on to persist.  The retry leaves the in-memory
\* Preferences as the failed call left them, which is as one successful
\* call would have.
C30_RetryIdempotent ==
    [][\A t \in Threads, op \in RetryOps :
          (/\ th[t].op = op /\ th[t].pc = "idle" /\ th[t].res = ErrIo
           /\ calls = 1
           /\ Calls(t, op) /\ th'[t].arg = th[t].arg
           /\ th'[t].pc = "create")
              => preferences' = preferences]_vars

\* ------------------------------------------------ claims about the defaults
\* preferences.json gives no toggle_app binding: it is absent, it does not
\* parse, it has no shortcuts field, or its shortcuts object has no toggle_app.
FileOmitsToggleApp ==
    \/ ~file.exists
    \/ ~Parses(file.data)
    \/ file.data[1].doc.shortcuts = None
    \/ file.data[1].doc.shortcuts[1].toggle_app = None

\* C31: every path that produces a default toggle_app binding produces the
\* same one: whenever the manager holds the Preferences it loaded from a file
\* that gives no toggle_app, the binding is the one of the Preferences
\* substituted for an absent or unparseable file.
C31_OneDefaultBinding ==
    (manager = "ready" /\ FileOmitsToggleApp)
        => preferences.shortcuts.toggle_app =
               [modifiers |-> <<ctrl, alt>>, key |-> <<"v">>,
                action |-> "toggle_window"]

\* ------------------------------------- claims about the enabled libraries
\* C32: once every thread has made one enable_meme_lib or disable_meme_lib
\* call, each on a uuid of its own, and all of them returned Ok(()),
\* enabled_meme_libs.json holds a set that contains every uuid enabled and
\* no uuid disabled, however the calls interleaved.
C32_NoLostUpdate ==
    (/\ \A t \in Threads :
            /\ th[t].pc = "idle" /\ th[t].n = 1
            /\ th[t].op \in LibsOps /\ th[t].res = OkUnit
     /\ \A t, u \in Threads : t # u => th[t].arg # th[u].arg)
        => /\ Parses(community.libs.data)
           /\ \A t \in Threads :
                  /\ th[t].op = "enable_meme_lib" =>
                         th[t].arg[1] \in community.libs.data[1].doc.enabled_libs
                  /\ th[t].op = "disable_meme_lib" =>
                         th[t].arg[1] \notin community.libs.data[1].doc.enabled_libs

\* --------------------------------------- claims about the shortcut handler
\* C33: the window's visibility changes only in a step that handles a
\* Pressed event whose shortcut is the one derived from the toggle_app
\* binding the store holds in that step; a handled Pressed event with that
\* shortcut, the main window present and its calls succeeding, changes it;
\* a Released event never does.
C33_ToggleIffBindingMatches ==
    [][/\ hotkeys'.visible # hotkeys.visible =>
              /\ hotkeys'.event.state = "Pressed"
              /\ hotkeys'.event.shortcut = toggle_shortcut
              /\ hotkeys'.event.toggled
       /\ (/\ hotkeys'.event # hotkeys.event
           /\ hotkeys'.event.state = "Pressed"
           /\ hotkeys'.event.ok
           /\ hotkeys'.event.shortcut = toggle_shortcut)
              => hotkeys'.visible # hotkeys.visible /\ hotkeys'.event.toggled
       /\ (/\ hotkeys'.event # hotkeys.event
           /\ \/ hotkeys'.event.state = "Released"
              \/ hotkeys'.event.shortcut # toggle_shortcut)
              => hotkeys'.visible = hotkeys.visible /\ ~hotkeys'.event.toggled
      ]_vars

\* update_shortcuts has stored another binding, refresh_shortcuts has not
\* run, and a press of the shortcut still registered left the window alone.
C33_Witness ==
    /\ hotkeys.n = 0
    /\ \E t \in Threads : th[t].op = "update_shortcuts" /\ th[t].res = OkUnit
                            /\ th[t].pc = "idle"
    /\ hotkeys.event.state = "Pressed"
    /\ hotkeys.event.ok
    /\ ~hotkeys.event.toggled
    /\ hotkeys.event.shortcut \in hotkeys.registered
    /\ hotkeys.event.shortcut # toggle_shortcut

====
